---- MODULE Spec2Model ----
(***************************************************************************)
(* The pipeline orchestration engine of agentic-dev-pipeline:              *)
(*   run_pipeline (pipeline.py), the gate executor (_run_quality_gates,    *)
(*   _run_gates_sequential, _run_gates_parallel, _run_gate_command,        *)
(*   _run_callable_gate), CliClaudeRunner.run (runner.py) and              *)
(*   run_triangular_verification (verify.py).                              *)
(*                                                                         *)
(* A text is a sequence of tokens [s, n]: s names the piece of text, n is  *)
(* its length in characters.  A command is a text whose tokens are its     *)
(* shell lexemes; the lexeme BACKTICK stands for the backquote character.   *)
(***************************************************************************)
EXTENDS Integers, Sequences, FiniteSets, TLC

VARIABLES
    \* arguments of run_pipeline (webhook_url is "unread" until the finally block)
    max_iterations, max_retries, use_parallel, cfg, webhook_url, requirements_file,
    \* whether shutil.which finds the claude executable
    claude_on_path,
    \* locals of run_pipeline
    pc, iteration, shutdown_requested, converged, iter_metrics, metrics,
    handlers, retval, exc,
    \* locals of the gate executor
    gpos, gate_pass, gate_output, gate_results, futures, failures,
    \* the lines that the gate phase in progress, or the last one, appended to the
    \* run log, each with the thread that wrote it
    run_log,
    \* locals of CliClaudeRunner.run
    rpc, who, r_prompt, attempt, r_out, r_err,
    \* files of the output directory
    feedback_file, blind_review_file, discrepancy_file, metrics_file,
    \* what the environment saw of one agent call: subprocesses started, sleeps,
    \* and whether a subprocess could not be started for want of the executable
    r_attempts, r_sleeps, r_missing,
    \* what the environment saw of each iteration started: the gates called, those
    \* whose subprocess or callable was actually started, those that passed, and
    \* whether the agent's Phase C output held the pass marker
    history,
    \* what the environment saw of the run: phases started, saves, webhook posts
    counts

vars == << max_iterations, max_retries, use_parallel, cfg, webhook_url, requirements_file,
           claude_on_path,
           pc, iteration, shutdown_requested, converged, iter_metrics, metrics,
           handlers, retval, exc,
           gpos, gate_pass, gate_output, gate_results, futures, failures, run_log,
           rpc, who, r_prompt, attempt, r_out, r_err,
           feedback_file, blind_review_file, discrepancy_file, metrics_file,
           r_attempts, r_sleeps, r_missing, history, counts >>

-----------------------------------------------------------------------------
\* Bounds of the model

MaxIterations == 2
MaxRetries == 2

-----------------------------------------------------------------------------
\* Program constants

GATE_OUTPUT_LIMIT == 500

\* a file of the output directory: its text, and who wrote it in which iteration
File(text, by, it) == [exists |-> TRUE, text |-> text, by |-> by, it |-> it]
NoFile == [exists |-> FALSE, text |-> << >>, by |-> "none", it |-> 0]

-----------------------------------------------------------------------------
\* Texts

T(s, n) == [s |-> s, n |-> n]

RECURSIVE TextLen(_)
TextLen(text) ==
    IF text = << >> THEN 0 ELSE Head(text).n + TextLen(Tail(text))

\* text[:limit]
RECURSIVE Slice(_, _)
Slice(text, limit) ==
    IF text = << >> \/ limit <= 0 THEN << >>
    ELSE IF Head(text).n <= limit
         THEN << Head(text) >> \o Slice(Tail(text), limit - Head(text).n)
         ELSE << T(Head(text).s, limit) >>

\* prefix is a prefix of text
StartsWith(text, prefix) ==
    /\ Len(prefix) <= Len(text)
    /\ SubSeq(text, 1, Len(prefix)) = prefix

\* some token of text is tok
Mentions(text, tok) == \E i \in 1..Len(text) : text[i] = tok

RECURSIVE Pow2(_)
Pow2(n) == IF n <= 0 THEN 1 ELSE 2 * Pow2(n - 1)

Last(seq) == seq[Len(seq)]

-----------------------------------------------------------------------------
\* The command safety filter

WS == T(" ", 1)

\* the first index >= j of cmd that holds no whitespace
RECURSIVE SkipWs(_, _)
SkipWs(cmd, j) ==
    IF j <= Len(cmd) /\ cmd[j] = WS THEN SkipWs(cmd, j + 1) ELSE j

\* _UNSAFE_PATTERN matches at lexeme i: one of its five alternatives
UnsafeAt(cmd, i) ==
    \/ cmd[i].s = "$("
    \/ cmd[i].s = "BACKTICK"
    \/ /\ cmd[i].s \in {";", "&&"}
       /\ LET k == SkipWs(cmd, i + 1)
          IN  k + 1 <= Len(cmd) /\ cmd[k].s = "rm" /\ cmd[k + 1] = WS
    \/ /\ cmd[i].s = ">"
       /\ LET k == SkipWs(cmd, i + 1)
          IN  k <= Len(cmd) /\ cmd[k].s = "/dev/"

_UNSAFE_PATTERN_search(cmd) == \E i \in 1..Len(cmd) : UnsafeAt(cmd, i)

_is_safe_command(cmd) == ~ _UNSAFE_PATTERN_search(cmd)

-----------------------------------------------------------------------------
\* Gate commands of the modelled projects

RuffCmd == << T("ruff", 4), WS, T("check", 5) >>
\* echo $(cat x)
SubstCmd == << T("echo", 4), WS, T("$(", 2), T("cat", 3), WS, T("x", 1), T(")", 1) >>
\* echo <backquote>rm -rf /<backquote>
BacktickCmd == << T("echo", 4), WS, T("BACKTICK", 1), T("rm", 2), WS, T("-rf", 3),
                  WS, T("/", 1), T("BACKTICK", 1) >>
\* make;  rm -rf x
SemiRmCmd == << T("make", 4), T(";", 1), WS, WS, T("rm", 2), WS, T("-rf", 3), WS, T("x", 1) >>
\* make &&rm x
AndRmCmd == << T("make", 4), WS, T("&&", 2), T("rm", 2), WS, T("x", 1) >>
\* scan > /dev/null
DevNullCmd == << T("scan", 4), WS, T(">", 1), WS, T("/dev/", 5), T("null", 4) >>
\* make; rmdir x    (no unsafe pattern: rm is not followed by whitespace)
RmdirCmd == << T("make", 4), T(";", 1), WS, T("rmdir", 5), WS, T("x", 1) >>
NoCmd == << >>

\* a directory entry: file name, stem, suffix, and its rank in the sort order
\* of the file names
PluginA == [name |-> T("a-check.sh", 10), stem |-> T("a-check", 7), suffix |-> ".sh",
            rank |-> 1, is_file |-> TRUE]
PluginNotes == [name |-> T("notes.md", 8), stem |-> T("notes", 5), suffix |-> ".md",
                rank |-> 2, is_file |-> TRUE]
\* a-check.py, which sorts before a-check.sh
PluginAPy == [name |-> T("a-check.py", 10), stem |-> T("a-check", 7), suffix |-> ".py",
              rank |-> 0, is_file |-> TRUE]

\* ProjectConfig commands and file lists, plugin directory and custom_gates of
\* a run; PlainSetup is a project with no gate at all, PluginSetup one with a
\* plugin directory and a predicate gate
PlainSetup ==
    [lint_cmd |-> NoCmd, test_cmd |-> NoCmd, security_cmd |-> NoCmd,
     plugin_dir |-> {}, custom_gates |-> << >>,
     instruction_files |-> << << T("CLAUDE.md", 9) >> >>, design_docs |-> << >>,
     changed_files |-> << << T("src/app.py", 10) >>, << T("tests/test_app.py", 17) >> >>]

PluginSetup ==
    [lint_cmd |-> NoCmd, test_cmd |-> NoCmd, security_cmd |-> NoCmd,
     plugin_dir |-> {PluginNotes, PluginA}, custom_gates |-> << T("cg", 2) >>,
     instruction_files |-> << << T("CLAUDE.md", 9) >>, << T("AGENTS.md", 9) >> >>,
     design_docs |-> << << T("docs/design.md", 14) >> >>,
     changed_files |-> << << T("src/app.py", 10) >> >>]

\* a project with the predicate gate slow
SlowGateSetup ==
    [lint_cmd |-> NoCmd, test_cmd |-> NoCmd, security_cmd |-> NoCmd,
     plugin_dir |-> {}, custom_gates |-> << T("slow", 4) >>,
     instruction_files |-> << >>, design_docs |-> << >>,
     changed_files |-> << << T("src/app.py", 10) >> >>]

Setups == {
    PlainSetup,
    [lint_cmd |-> RuffCmd, test_cmd |-> RmdirCmd, security_cmd |-> NoCmd,
     plugin_dir |-> {}, custom_gates |-> << >>,
     instruction_files |-> << >>, design_docs |-> << >>,
     changed_files |-> << << T("src/app.py", 10) >> >>],
    PluginSetup,
    [lint_cmd |-> SubstCmd, test_cmd |-> SemiRmCmd, security_cmd |-> DevNullCmd,
     plugin_dir |-> {}, custom_gates |-> << >>,
     instruction_files |-> << >>, design_docs |-> << << T("docs/design.md", 14) >> >>,
     changed_files |-> << >>],
    [lint_cmd |-> AndRmCmd, test_cmd |-> BacktickCmd, security_cmd |-> NoCmd,
     plugin_dir |-> {}, custom_gates |-> << >>,
     instruction_files |-> << >>, design_docs |-> << >>,
     changed_files |-> << << T("src/app.py", 10) >> >>] }

\* a plugin directory that holds a-check.sh and a-check.py
TwinPluginSetup ==
    [lint_cmd |-> NoCmd, test_cmd |-> NoCmd, security_cmd |-> NoCmd,
     plugin_dir |-> {PluginA, PluginAPy}, custom_gates |-> << >>,
     instruction_files |-> << >>, design_docs |-> << >>,
     changed_files |-> << << T("src/app.py", 10) >> >>]

\* the prompt_file argument: its path and what read_text gives
prompt_file ==
    [path |-> T("PROMPT.md", 9), text |-> << T("Build the feature of requirements.md", 36) >>]

\* the requirements_file argument: its path and what the document holds
Requirements == [path |-> T("requirements.md", 15), text |-> << T("R1: the tool exits 0", 20) >>]
RequirementsDocs ==
    { Requirements,
      [path |-> T("requirements.md", 15), text |-> << T("R1: the tool exits 1", 20) >>],
      [path |-> T("docs/spec.md", 12), text |-> << T("R1: the tool exits 0", 20) >>] }

-----------------------------------------------------------------------------
\* Gates

\* sorted(path.iterdir())
RECURSIVE SortedByRank(_)
SortedByRank(files) ==
    IF files = {} THEN << >>
    ELSE LET f == CHOOSE x \in files : \A y \in files : x.rank <= y.rank
         IN  << f >> \o SortedByRank(files \ {f})

RECURSIVE PluginsOf(_)
PluginsOf(listing) ==
    IF listing = << >> THEN << >>
    ELSE LET f == Head(listing)
         IN  (IF f.suffix = ".sh" /\ f.is_file
                THEN << [name |-> f.stem, cmd |-> << T("bash", 4), WS, f.name >>] >>
              ELSE IF f.suffix = ".py" /\ f.is_file
                THEN << [name |-> f.stem, cmd |-> << T("python3", 7), WS, f.name >>] >>
              ELSE << >>) \o PluginsOf(Tail(listing))

\* faulty variant of _load_plugins: the listing is taken in reverse order
_load_plugins_Reversed(plugin_dir) ==
    LET l == SortedByRank(plugin_dir)
    IN  PluginsOf([i \in 1..Len(l) |-> l[Len(l) + 1 - i]])

_load_plugins(plugin_dir) == PluginsOf(SortedByRank(plugin_dir))

\* the gate list run_pipeline builds: lint, test, security, then the plugins
BuildGates(c) ==
    LET plugins == IF c.plugin_dir = {} THEN << >> ELSE _load_plugins(c.plugin_dir)
    IN  (IF c.lint_cmd # NoCmd THEN << [name |-> << T("lint", 4) >>, cmd |-> c.lint_cmd] >> ELSE << >>)
        \o (IF c.test_cmd # NoCmd THEN << [name |-> << T("test", 4) >>, cmd |-> c.test_cmd] >> ELSE << >>)
        \o (IF c.security_cmd # NoCmd
              THEN << [name |-> << T("security", 8) >>, cmd |-> c.security_cmd] >> ELSE << >>)
        \o [i \in 1..Len(plugins) |->
              [name |-> << T("plugin:", 7), plugins[i].name >>, cmd |-> plugins[i].cmd]]

gates == BuildGates(cfg)
callable_gates == cfg.custom_gates
total_gates == Len(gates) + Len(callable_gates)

\* what a started subprocess of the modelled projects can do: exit with 0 or
\* with 1, and ruff may also run into the timeout
CmdOutcomes(cmd) ==
    IF cmd = RuffCmd THEN {"exit0", "exit1", "timeout"} ELSE {"exit0", "exit1"}
\* what a called predicate can do: return a verdict or raise; the predicate
\* slow may also never return
CallableOutcomes(name) ==
    IF name = T("slow", 4) THEN {"true", "false", "hang"} ELSE {"true", "false", "raise"}

\* result.stdout + result.stderr
ProcessOutput(o) ==
    IF o = "exit0" THEN << T("stdout", 2), T("stderr", 0) >>
    ELSE << T("stdout", 300), T("stderr", 300) >>

\* the try statement of _run_gate_command: subprocess.run ends in o
SubprocessRun(cmd, timeout, o) ==
    CASE o = "timeout" ->
            [passed |-> FALSE, spawned |-> TRUE,
             output |-> << T("Command timed out after ", 24), timeout, T("s: ", 3) >> \o cmd]
      [] o = "oserror" ->
            [passed |-> FALSE, spawned |-> TRUE,
             output |-> << T("Command failed: ", 16), T("e", 20) >>]
      [] OTHER ->
            [passed |-> (o = "exit0"), spawned |-> TRUE, output |-> ProcessOutput(o)]

\* faulty variant of _run_gate_command: the safety filter is left out
_run_gate_command_Unfiltered(cmd, timeout, o) == SubprocessRun(cmd, timeout, o)

\* _run_gate_command(cmd, timeout) when the subprocess, if started, ends in o
_run_gate_command(cmd, timeout, o) ==
    IF ~ _is_safe_command(cmd)
    THEN [passed |-> FALSE, spawned |-> FALSE,
          output |-> << T("BLOCKED: command contains unsafe patterns: ", 43) >> \o cmd]
    ELSE SubprocessRun(cmd, timeout, o)

\* faulty variant of _run_callable_gate: the exception is swallowed and the
\* gate counts as passed
_run_callable_gate_RaisePasses(name, o) ==
    [passed |-> (o \in {"true", "raise"}), spawned |-> TRUE, output |-> << T("msg", 30) >>]

\* _run_callable_gate(name, func) when func() ends in o
_run_callable_gate(name, o) ==
    CASE o = "raise" ->
            [passed |-> FALSE, spawned |-> TRUE,
             output |-> << T("Gate '", 6), name, T("' raised: ", 10), T("e", 20) >>]
      [] OTHER ->
            [passed |-> (o = "true"), spawned |-> TRUE, output |-> << T("msg", 30) >>]

\* gate i of the phase, in declaration order: the commands, then the callables
IsCmdGate(i) == i <= Len(gates)
GateName(i) ==
    IF IsCmdGate(i) THEN gates[i].name
    ELSE << T("callable:", 9), callable_gates[i - Len(gates)] >>
GateOutcomes(i) ==
    IF IsCmdGate(i) THEN CmdOutcomes(gates[i].cmd)
    ELSE CallableOutcomes(callable_gates[i - Len(gates)])
RunGate(i, o) ==
    IF IsCmdGate(i) THEN _run_gate_command(gates[i].cmd, T("300", 3), o)
    ELSE _run_callable_gate(callable_gates[i - Len(gates)], o)

PASS == "pass"
FAIL == "fail"
SKIPPED == "skipped"
BLOCKED == "blocked"

\* faulty variant of GateResult: the output is stored whole
GateResult_Untruncated(name, passed, output) ==
    [name |-> name, status |-> IF passed THEN PASS ELSE FAIL, output |-> output]

\* faulty variant of GateResult: a failed gate keeps the default status
GateResult_DefaultStatus(name, passed, output) ==
    [name |-> name, status |-> IF passed THEN PASS ELSE SKIPPED,
     output |-> Slice(output, GATE_OUTPUT_LIMIT)]

GateResult(name, passed, output) ==
    [name |-> name, status |-> IF passed THEN PASS ELSE FAIL,
     output |-> Slice(output, GATE_OUTPUT_LIMIT)]

\* faulty variant of SeqCmdFailure: the command is left out of the block
SeqCmdFailure_NoCmd(i, output) ==
    gates[i].name \o << T(" FAILED:\n", 9) >> \o output

\* the failure blocks of the two disciplines
SeqCmdFailure(i, output) ==
    gates[i].name \o << T(" (", 2) >> \o gates[i].cmd \o << T(") FAILED:\n", 10) >> \o output
SeqCallableFailure(i, output) ==
    GateName(i) \o << T(" FAILED:\n", 9) >> \o output
\* faulty variant of ParFailure: the block does not name its gate
ParFailure_Anonymous(i, output) ==
    << T("FAILED:\n", 8) >> \o output

ParFailure(i, output) ==
    GateName(i) \o << T(" FAILED:\n", 9) >> \o output

-----------------------------------------------------------------------------
\* CliClaudeRunner.run

TRIANGULAR_PASS_MARKER == T("TRIANGULAR_PASS", 15)

\* what the agent can print for a call of the implementation phase (impl),
\* of Phase B (B) and of Phase C (C)
AgentTexts(w) ==
    IF w = "C"
    THEN { << T("## Verdict\n", 11), TRIANGULAR_PASS_MARKER >>,
           << T("## Verdict\n", 11), T("- fix X", 7) >>,
           << T("## Requirements Missed\nno ", 26), TRIANGULAR_PASS_MARKER, T(" yet", 4) >> }
    ELSE { << T("agent output", 12) >> }

NoOut == [text |-> << >>, by |-> "none", it |-> 0, att |-> 0]
\* RuntimeError: "... not found in PATH ...", or "claude failed after n attempts"
NoError == [kind |-> "none", n |-> 0]
NoPrompt == << >>

argVars == << max_iterations, max_retries, use_parallel, cfg, webhook_url, requirements_file,
             claude_on_path >>
loopVars == << iteration, converged, iter_metrics, metrics, handlers, retval, exc >>
gateVars == << gpos, gate_pass, gate_output, gate_results, futures, failures, run_log >>
runnerVars == << rpc, who, r_prompt, attempt, r_out, r_err, r_attempts, r_sleeps, r_missing >>
fileVars == << feedback_file, blind_review_file, discrepancy_file, metrics_file >>

\* the call runner.run(prompt, timeout=..., max_retries=..., logger=...) by w
CallRunner(w, prompt) ==
    /\ rpc' = "try"
    /\ who' = w
    /\ r_prompt' = prompt
    /\ attempt' = 1
    /\ r_out' = NoOut
    /\ r_err' = NoError
    /\ r_attempts' = 0
    /\ r_sleeps' = << >>
    /\ r_missing' = FALSE

\* the call is over: its locals are gone
RunnerIdle ==
    /\ rpc' = "idle"
    /\ who' = "none"
    /\ r_prompt' = NoPrompt
    /\ attempt' = 0
    /\ r_out' = NoOut
    /\ r_err' = NoError
    /\ r_attempts' = 0
    /\ r_sleeps' = << >>
    /\ r_missing' = FALSE

\* one pass through the try statement of the loop: subprocess.run and its
\* outcome; the output of the n-th subprocess is tagged att = n.
\* missing_is_fatal: FileNotFoundError is re-raised as RuntimeError
AttemptStep(missing_is_fatal) ==
    /\ rpc = "try"
    /\ attempt <= max_retries
    /\ r_attempts' = r_attempts + 1
    /\ \E o \in {"ok", "nonzero", "timeout", "notfound"} :
          CASE o = "ok" ->
                  /\ \E text \in AgentTexts(who) :
                        r_out' = [text |-> text, by |-> who, it |-> iteration,
                                  att |-> r_attempts']
                  /\ rpc' = "returned"
                  /\ UNCHANGED << r_err, r_missing >>
            [] o = "notfound" ->
                  /\ rpc' = IF missing_is_fatal THEN "raised" ELSE "failed"
                  /\ r_err' = IF missing_is_fatal THEN [kind |-> "not_found", n |-> 0]
                               ELSE r_err
                  /\ r_missing' = TRUE
                  /\ r_out' = r_out
            [] OTHER ->
                  /\ rpc' = "failed"
                  /\ UNCHANGED << r_out, r_err, r_missing >>
    /\ UNCHANGED << who, r_prompt, attempt, r_sleeps >>
    /\ UNCHANGED << argVars, pc, shutdown_requested, loopVars, gateVars, fileVars, history, counts >>

\* faulty variant of RunnerAttempt: a missing executable is retried like a timeout
RunnerAttempt_RetryNotFound == AttemptStep(FALSE)

RunnerAttempt == AttemptStep(TRUE)

\* after a failed attempt: time.sleep(backoff) if sleeps, then the next round of
\* the loop
BackoffStep(sleeps, backoff) ==
    /\ rpc = "failed"
    /\ r_sleeps' = IF sleeps THEN Append(r_sleeps, backoff) ELSE r_sleeps
    /\ attempt' = attempt + 1
    /\ rpc' = "try"
    /\ UNCHANGED << who, r_prompt, r_out, r_err, r_attempts, r_missing >>
    /\ UNCHANGED << argVars, pc, shutdown_requested, loopVars, gateVars, fileVars, history, counts >>

\* faulty variants of RunnerBackoff: the backoff is 2^(attempt-1); the sleep is
\* not skipped after the last attempt
RunnerBackoff_OffByOne == BackoffStep(attempt < max_retries, Pow2(attempt - 1))
RunnerBackoff_AlwaysSleep == BackoffStep(TRUE, Pow2(attempt))

\* if attempt < max_retries: backoff = 2**attempt; time.sleep(backoff)
RunnerBackoff == BackoffStep(attempt < max_retries, Pow2(attempt))

\* faulty variant of RunnerExhausted: a call that attempted nothing returns an
\* empty output
RunnerExhausted_EmptyReturn ==
    /\ rpc = "try"
    /\ attempt > max_retries
    /\ IF r_attempts = 0
         THEN /\ rpc' = "returned"
              /\ r_out' = [text |-> << >>, by |-> who, it |-> iteration, att |-> 0]
              /\ r_err' = r_err
         ELSE /\ rpc' = "raised"
              /\ r_err' = [kind |-> "failed_after_attempts", n |-> max_retries]
              /\ r_out' = r_out
    /\ UNCHANGED << who, r_prompt, attempt, r_attempts, r_sleeps, r_missing >>
    /\ UNCHANGED << argVars, pc, shutdown_requested, loopVars, gateVars, fileVars, history, counts >>

\* the loop is over: raise RuntimeError("claude failed after N attempts")
RunnerExhausted ==
    /\ rpc = "try"
    /\ attempt > max_retries
    /\ rpc' = "raised"
    /\ r_err' = [kind |-> "failed_after_attempts", n |-> max_retries]
    /\ UNCHANGED << who, r_prompt, attempt, r_out, r_attempts, r_sleeps, r_missing >>
    /\ UNCHANGED << argVars, pc, shutdown_requested, loopVars, gateVars, fileVars, history, counts >>

-----------------------------------------------------------------------------
\* run_pipeline

GATE_FAIL == "gate_fail"
VERIFY_FAIL == "verify_fail"
NoOutcome == "none"

IterationMetrics(it) ==
    [iteration |-> it, phase1_done |-> FALSE, gate_results |-> << >>,
     verification_status |-> SKIPPED, outcome |-> NoOutcome]

PipelineMetrics ==
    [total_iterations |-> 0, converged |-> FALSE, iterations |-> << >>]

NoFuture == [st |-> "none", passed |-> FALSE, output |-> << >>]

\* the output directory as run_pipeline finds it (mkdir with exist_ok): empty,
\* or holding the files earlier runs left in it: the feedback of a run that did
\* not converge, the reports of a run that converged before it
CleanDir ==
    [feedback |-> NoFile, blind_review |-> NoFile, discrepancy |-> NoFile, metrics |-> NoFile]
ReusedDir ==
    [feedback |-> File(<< T("lint (ruff check) FAILED:\n", 26), T("stdout", 300) >>, "earlier", 0),
     blind_review |-> File(<< T("agent output", 12) >>, "earlier", 0),
     discrepancy |-> File(<< T("## Verdict\n", 11), TRIANGULAR_PASS_MARKER >>, "earlier", 0),
     metrics |-> File(<< >>, "earlier", 0)]

\* the state at the call of run_pipeline, for a project of setups, an output
\* directory of dirs and a requirements document of docs
InitWith(setups, dirs, docs) ==
    /\ max_iterations \in 0..MaxIterations
    /\ max_retries \in 0..MaxRetries
    /\ use_parallel \in BOOLEAN
    /\ cfg \in setups
    /\ requirements_file \in docs
    /\ webhook_url = "unread"
    /\ claude_on_path \in BOOLEAN
    /\ pc = "entry"
    /\ iteration = 0
    /\ shutdown_requested = FALSE
    /\ converged = FALSE
    /\ iter_metrics = IterationMetrics(0)
    /\ metrics = PipelineMetrics
    /\ handlers = "original"
    /\ retval = FALSE
    /\ exc = NoError
    /\ gpos = 0
    /\ gate_pass = TRUE
    /\ gate_output = << >>
    /\ gate_results = << >>
    /\ run_log = << >>
    /\ futures = << >>
    /\ failures = << >>
    /\ history = << >>
    /\ rpc = "idle"
    /\ who = "none"
    /\ r_prompt = NoPrompt
    /\ attempt = 0
    /\ r_out = NoOut
    /\ r_err = NoError
    /\ r_attempts = 0
    /\ r_sleeps = << >>
    /\ r_missing = FALSE
    /\ \E d \in dirs :
          /\ feedback_file = d.feedback
          /\ blind_review_file = d.blind_review
          /\ discrepancy_file = d.discrepancy
          /\ metrics_file = d.metrics
    /\ counts = [impl |-> 0, gate_phases |-> 0, verify |-> 0, saves |-> 0, webhooks |-> 0,
                 delivered |-> 0]

\* a first run in an empty output directory
Init == InitWith(Setups, {CleanDir}, {Requirements})

\* a run in an output directory that earlier runs have used, for the projects
\* of Setups and one whose plugin directory holds a .sh and a .py of one stem
InitReused == InitWith(Setups \cup {TwinPluginSetup}, {ReusedDir}, {Requirements})

\* a first run for any of the requirements documents, for projects with no
\* gate, with plugins and a predicate gate, and with a predicate gate that may
\* never return
InitDocs == InitWith({PlainSetup, PluginSetup, SlowGateSetup}, {CleanDir}, RequirementsDocs)

\* _signal_handler, run on SIGINT or SIGTERM while it is installed
Signal ==
    /\ handlers = "pipeline"
    /\ ~ shutdown_requested
    /\ shutdown_requested' = TRUE
    /\ UNCHANGED << argVars, pc, loopVars, gateVars, runnerVars, fileVars, history, counts >>

\* from the call to the loop: the handlers are installed, then the check of
\* shutil.which("claude") with result found
EnterStep(found) ==
    /\ pc = "entry"
    /\ handlers' = "pipeline"
    /\ metrics' = PipelineMetrics
    /\ IF ~ found
         THEN /\ pc' = "returned"
              /\ retval' = FALSE
              /\ UNCHANGED << iteration, converged >>
         ELSE /\ converged' = FALSE
              /\ iteration' = 1
              /\ pc' = "loop"
              /\ retval' = retval
    /\ UNCHANGED << argVars, shutdown_requested, iter_metrics, exc, gateVars, runnerVars,
                    fileVars, history, counts >>

\* faulty variant of Enter: the check of shutil.which is left out
Enter_NoWhichCheck == EnterStep(TRUE)

Enter == EnterStep(claude_on_path)

\* the corrective prompt around the feedback text
CorrectivePrompt(it, feedback_text) ==
    << T("Read ", 5), prompt_file.path,
       T(" for the full requirements.\n\nPrevious iteration (", 48), T(ToString(it - 1), 1),
       T(") failed with this feedback:\n---\n", 33) >>
    \o feedback_text
    \o << T("\n---\n\nFix the issues described above. (...) match the requirements.", 191) >>

\* faulty variant of ImplementationPrompt: the feedback file is used whenever
\* there is one
ImplementationPrompt_FeedbackFirst(it, feedback) ==
    IF feedback.exists THEN CorrectivePrompt(it, feedback.text) ELSE prompt_file.text

\* the prompt of _run_implementation_phase
ImplementationPrompt(it, feedback) ==
    IF it = 1
    THEN prompt_file.text
    ELSE CorrectivePrompt(it, IF feedback.exists THEN feedback.text
                              ELSE << T("No specific feedback available", 30) >>)

NoHistory == [called |-> {}, executed |-> {}, raised |-> {}, passed |-> {}, report |-> "none"]

\* the head of the for loop, down to the agent call of Phase 1;
\* exhausted: range(1, max_iterations + 1) is used up; stopped: the shutdown
\* check breaks
LoopHeadStep(exhausted, stopped) ==
    /\ pc = "loop"
    /\ IF exhausted \/ stopped
         THEN /\ pc' = "finally"
              /\ UNCHANGED << iter_metrics, runnerVars, history, counts >>
         ELSE /\ iter_metrics' = IterationMetrics(iteration)
              /\ history' = Append(history, NoHistory)
              /\ CallRunner("impl", ImplementationPrompt(iteration, feedback_file))
              /\ counts' = [counts EXCEPT !.impl = @ + 1]
              /\ pc' = "phase1"
    /\ UNCHANGED << argVars, shutdown_requested, iteration, converged, metrics, handlers,
                    retval, exc, gateVars, fileVars >>

\* faulty variants of LoopHead: the shutdown check is left out; the range ends
\* one iteration early
LoopHead_IgnoreShutdown == LoopHeadStep(iteration > max_iterations, FALSE)
LoopHead_OffByOne == LoopHeadStep(iteration >= max_iterations, shutdown_requested)

LoopHead == LoopHeadStep(iteration > max_iterations, shutdown_requested)

\* an agent call raised: the exception leaves the loop for goes_to, at
\* iteration it
RunnerRaisedStep(goes_to, it) ==
    /\ pc \in {"phase1", "verify_b", "verify_c"}
    /\ rpc = "raised"
    /\ exc' = r_err
    /\ RunnerIdle
    /\ pc' = goes_to
    /\ iteration' = it
    /\ UNCHANGED << argVars, shutdown_requested, converged, iter_metrics, metrics,
                    handlers, retval, gateVars, fileVars, history, counts >>

\* faulty variant of RunnerRaised: the error is noted and the loop goes on
RunnerRaised_NextIteration == RunnerRaisedStep("loop", iteration + 1)

\* the exception leaves the try block: no except clause, the finally block is next
RunnerRaised == RunnerRaisedStep("finally", iteration)

\* faulty variant of ShutdownBreak: the aborted iteration is recorded
ShutdownBreak_Recorded(m) ==
    /\ metrics' = [metrics EXCEPT !.iterations = Append(@, m)]
    /\ pc' = "finally"

\* if shutdown_requested: break   (m: the IterationMetrics of the iteration)
ShutdownBreak(m) ==
    /\ metrics' = metrics
    /\ pc' = "finally"

\* Logger._emit by thread by: the line is appended to the run log
_emit(by, message) == [by |-> by, line |-> message]

\* logger.info(f"[Phase 2] {name}: PASS") or FAIL
VerdictLine(name, passed) ==
    << T("[Phase 2] ", 10) >> \o name \o << IF passed THEN T(": PASS", 6) ELSE T(": FAIL", 6) >>

\* Phase 1 returned: the shutdown check, then the gate list is built and
\* _run_quality_gates entered; empty_passes: its verdict when there is no gate
Phase1DoneStep(empty_passes) ==
    /\ pc = "phase1"
    /\ rpc = "returned"
    /\ RunnerIdle
    /\ iter_metrics' = [iter_metrics EXCEPT !.phase1_done = TRUE]
    /\ IF shutdown_requested
         THEN /\ ShutdownBreak(iter_metrics')
              /\ UNCHANGED << gateVars, counts >>
         ELSE /\ metrics' = metrics
              /\ counts' = [counts EXCEPT !.gate_phases = @ + 1]
              /\ gate_results' = << >>
              /\ run_log' =
                    IF total_gates = 0
                    THEN << _emit("main", << T("[Phase 2] No quality gates configured -- skipping", 47) >>) >>
                    ELSE IF use_parallel
                    THEN << _emit("main", << T("[Phase 2] Running ", 18), T(ToString(total_gates), 1),
                                             T(" gates in parallel", 18) >>) >>
                    ELSE << >>
              /\ failures' = << >>
              /\ gate_pass' = (total_gates # 0 \/ empty_passes)
              /\ gate_output' = << >>
              /\ gpos' = 1
              /\ futures' = IF total_gates # 0 /\ use_parallel
                              THEN [i \in 1..total_gates |-> [NoFuture EXCEPT !.st = "running"]]
                              ELSE << >>
              /\ pc' = IF total_gates = 0 THEN "gates_done"
                       ELSE IF use_parallel THEN "par" ELSE "seq"
    /\ UNCHANGED << argVars, shutdown_requested, iteration, converged, handlers,
                    retval, exc, fileVars, history >>

\* faulty variant of Phase1Done: a gate phase with no gate counts as failed
Phase1Done_NoGatesFails == Phase1DoneStep(FALSE)

\* if not total_gates: return True, "", results
Phase1Done == Phase1DoneStep(TRUE)

-----------------------------------------------------------------------------
\* The gate executor

\* sep.join(texts)
RECURSIVE Join(_, _)
Join(texts, sep) ==
    IF texts = << >> THEN << >>
    ELSE IF Len(texts) = 1 THEN Head(texts)
    ELSE Head(texts) \o sep \o Join(Tail(texts), sep)

\* gate i of this iteration was called and ended in o, with result r
Ran(i, o, r) ==
    [history EXCEPT ![iteration] =
        [@ EXCEPT !.called = @ \cup {i},
                  !.executed = IF r.spawned THEN @ \cup {i} ELSE @,
                  !.raised = IF ~ IsCmdGate(i) /\ o = "raise" THEN @ \cup {i} ELSE @,
                  !.passed = IF r.passed THEN @ \cup {i} ELSE @]]

\* gate i of this iteration was called and does not return
Entered(i) ==
    [history EXCEPT ![iteration] =
        [@ EXCEPT !.called = @ \cup {i}, !.executed = @ \cup {i}]]

\* _run_gates_sequential: one round of its loops, for the gate at gpos;
\* goes_on: the round does not break. A call that never returns leaves the
\* thread of run_pipeline blocked in it.
SeqGateStep(goes_on) ==
    /\ pc = "seq"
    /\ gpos <= total_gates
    /\ goes_on
    /\ \E o \in GateOutcomes(gpos) :
          LET r == RunGate(gpos, o)
          IN  IF o = "hang"
              THEN /\ history' = Entered(gpos)
                   /\ run_log' = Append(run_log,
                          _emit("main", << T("[Phase 2] Running ", 18) >> \o GateName(gpos)))
                   /\ pc' = "blocked"
                   /\ UNCHANGED << gpos, gate_results, gate_pass, gate_output >>
              ELSE /\ pc' = pc
                   /\ gpos' = gpos + 1
                   /\ history' = Ran(gpos, o, r)
                   /\ gate_results' = Append(gate_results, GateResult(GateName(gpos), r.passed, r.output))
                   /\ run_log' = run_log \o
                         << _emit("main", << T("[Phase 2] Running ", 18) >> \o GateName(gpos)
                                          \o (IF IsCmdGate(gpos)
                                                THEN << T(": ", 2) >> \o gates[gpos].cmd ELSE << >>)),
                            _emit("main", VerdictLine(GateName(gpos), r.passed)) >>
                   /\ gate_pass' = r.passed
                   /\ gate_output' = IF r.passed THEN gate_output
                                     ELSE IF IsCmdGate(gpos) THEN SeqCmdFailure(gpos, r.output)
                                     ELSE SeqCallableFailure(gpos, r.output)
    /\ UNCHANGED << argVars, shutdown_requested, loopVars, futures, failures, runnerVars,
                    fileVars, counts >>

\* faulty variant of SeqGate: the loops do not break after a failure
SeqGate_NoBreak == SeqGateStep(TRUE)

SeqGate == SeqGateStep(gate_pass)

\* _run_gates_sequential: the loops end (no gate left, or break) and it returns
SeqReturn ==
    /\ pc = "seq"
    /\ (gpos > total_gates \/ ~ gate_pass)
    /\ pc' = "gates_done"
    /\ UNCHANGED << argVars, shutdown_requested, loopVars, gateVars, runnerVars, fileVars,
                    history, counts >>

\* _run_gates_parallel: the worker thread of future i runs its gate to the
\* end, or stays blocked in a predicate that never returns; log: the run log
\* after it
GateWorkerStep(i, log) ==
    /\ pc = "par"
    /\ futures[i].st = "running"
    /\ \E o \in GateOutcomes(i) :
          LET r == RunGate(i, o)
          IN  IF o = "hang"
              THEN /\ history' = Entered(i)
                   /\ futures' = [futures EXCEPT ![i] = [NoFuture EXCEPT !.st = "blocked"]]
              ELSE /\ history' = Ran(i, o, r)
                   /\ futures' = [futures EXCEPT ![i] =
                                     [st |-> "done", passed |-> r.passed, output |-> r.output]]
    /\ run_log' = log
    /\ UNCHANGED << argVars, pc, shutdown_requested, loopVars, gpos, gate_pass, gate_output,
                    gate_results, failures, runnerVars, fileVars, counts >>

\* faulty variant of GateWorker: the worker thread writes its own line to the
\* run log
GateWorker_Logs(i) ==
    GateWorkerStep(i, Append(run_log, _emit("worker", << T("[Phase 2] Running ", 18) >> \o GateName(i))))

\* _run_gate_command and _run_callable_gate have no logger
GateWorker(i) == GateWorkerStep(i, run_log)

\* _run_gates_parallel: as_completed yields the finished future i
Collect(i) ==
    /\ pc = "par"
    /\ futures[i].st = "done"
    /\ gate_results' = Append(gate_results,
                              GateResult(GateName(i), futures[i].passed, futures[i].output))
    /\ failures' = IF futures[i].passed THEN failures
                   ELSE Append(failures, ParFailure(i, futures[i].output))
    /\ futures' = [futures EXCEPT ![i] = [NoFuture EXCEPT !.st = "consumed"]]
    /\ run_log' = Append(run_log, _emit("main", VerdictLine(GateName(i), futures[i].passed)))
    /\ UNCHANGED << argVars, pc, shutdown_requested, loopVars, gpos, gate_pass, gate_output,
                    runnerVars, fileVars, history, counts >>

\* _run_gates_parallel: the as_completed loop is left when joined holds, the
\* executor is shut down, the verdict is computed and returned
ParReturnWhen(joined) ==
    /\ pc = "par"
    /\ joined
    /\ gate_pass' = (failures = << >>)
    /\ gate_output' = Join(failures, << T("\n\n", 2) >>)
    /\ pc' = "gates_done"
    /\ UNCHANGED << argVars, shutdown_requested, loopVars, gpos, gate_results, futures,
                    failures, run_log, runnerVars, fileVars, history, counts >>

\* faulty variant of ParReturn: the loop is left after the first result
ParReturn_Early == ParReturnWhen(\E i \in 1..total_gates : futures[i].st = "consumed")

\* as_completed is exhausted: every future was yielded
ParReturn == ParReturnWhen(\A i \in 1..total_gates : futures[i].st = "consumed")

\* The two executors as functions of what every gate does: o[i] is the way
\* gate i ends when it is run, order the order in which as_completed yields
\* the futures.
Verdicts == [1..total_gates -> UNION {GateOutcomes(i) \ {"hang"} : i \in 1..total_gates}]
GateVerdicts == {o \in Verdicts : \A i \in 1..total_gates : o[i] \in GateOutcomes(i)}
CompletionOrders ==
    {p \in [1..total_gates -> 1..total_gates] :
        \A i, j \in 1..total_gates : p[i] = p[j] => i = j}

RECURSIVE SeqFrom(_, _, _)
SeqFrom(i, o, acc) ==
    IF i > total_gates \/ ~ acc.gate_pass THEN acc
    ELSE LET r == RunGate(i, o[i])
         IN  SeqFrom(i + 1, o,
                [gate_pass |-> r.passed,
                 gate_output |-> IF r.passed THEN acc.gate_output
                                 ELSE IF IsCmdGate(i) THEN SeqCmdFailure(i, r.output)
                                 ELSE SeqCallableFailure(i, r.output),
                 results |-> Append(acc.results, GateResult(GateName(i), r.passed, r.output))])

_run_gates_sequential(o) ==
    SeqFrom(1, o, [gate_pass |-> TRUE, gate_output |-> << >>, results |-> << >>])

RECURSIVE ParFrom(_, _, _, _)
ParFrom(k, order, o, acc) ==
    IF k > total_gates THEN acc
    ELSE LET i == order[k]
             r == RunGate(i, o[i])
         IN  ParFrom(k + 1, order, o,
                [results |-> Append(acc.results, GateResult(GateName(i), r.passed, r.output)),
                 failures |-> IF r.passed THEN acc.failures
                              ELSE Append(acc.failures, ParFailure(i, r.output))])

_run_gates_parallel(o, order) ==
    LET a == ParFrom(1, order, o, [results |-> << >>, failures |-> << >>])
    IN  [gate_pass |-> (a.failures = << >>),
         gate_output |-> Join(a.failures, << T("\n\n", 2) >>),
         results |-> a.results]

-----------------------------------------------------------------------------
\* run_pipeline, from the return of _run_quality_gates

\* output_dir / "blind-review.md"
BlindReviewPath == T(".agentic-dev-pipeline/blind-review.md", 37)

\* faulty variant of agent_b_prompt: the requirements are shown to Agent B
agent_b_prompt_WithRequirements(requirements, c) ==
    << T("Requirements:\n", 14) >> \o requirements.text
    \o << T("\n\nThe following files were recently changed or created:\n", 57) >>
    \o Join(c.changed_files, << T("\n", 1) >>)

\* the prompt of Phase B, of the path of the requirements document and the
\* file lists of the project configuration
agent_b_prompt(requirements, c) ==
    LET context_lines ==
            (IF c.instruction_files # << >>
               THEN << << T("Project rules/conventions: ", 27) >>
                       \o Join(c.instruction_files, << T(" ", 1) >>) >>
               ELSE << >>)
            \o (IF c.design_docs # << >>
                  THEN << << T("Design documents: ", 18) >>
                          \o Join(c.design_docs, << T(" ", 1) >>) >>
                  ELSE << >>)
        context_section == Join(context_lines, << T("\n", 1) >>)
        changed_section == Join(c.changed_files, << T("\n", 1) >>)
        context_instruction ==
            IF context_section # << >>
            THEN << T("Read the following files for project context:\n", 46) >>
                 \o context_section \o << T("\n\n", 2) >>
            ELSE << >>
    IN  context_instruction
        \o << T("Do NOT read any requirements document (", 39), requirements.path,
              T(").\n\nThe following files were recently changed or created:\n", 59) >>
        \o changed_section
        \o << T("\n\nFor each file: (...) Output your analysis as structured markdown.", 249) >>

\* faulty variant of agent_c_prompt: Agent C is sent to the code as well
agent_c_prompt_WithCode(requirements, c) ==
    << T("Read these documents carefully:\n1. ", 35), requirements.path,
       T("\n2. ", 4), BlindReviewPath, T("\n3. ", 4) >>
    \o Join(c.changed_files, << T("\n", 1) >>)

\* the prompt of Phase C, of the paths of the requirements document and of the
\* blind review; the project configuration has no part in it
agent_c_prompt(requirements, c) ==
    << T("You are Agent C in a triangular verification process.\n\nRead these two documents carefully:\n1. ", 94),
       requirements.path,
       T(" (original requirements -- the source of truth)\n2. ", 51),
       BlindReviewPath,
       T(" (blind code analysis by another agent)\n\nDo NOT read any code files directly. (...) output exactly on its own line:\n", 618),
       TRIANGULAR_PASS_MARKER,
       T("\n\nOtherwise, list each issue that must be fixed.", 48) >>

\* faulty variant of Continue: break instead of continue
Continue_Break(m) ==
    /\ metrics' = [metrics EXCEPT !.iterations = Append(@, m)]
    /\ iteration' = iteration
    /\ pc' = "finally"

\* faulty variant of Continue: the iteration is recorded without its outcome
Continue_Unmarked(m) ==
    /\ metrics' = [metrics EXCEPT !.iterations = Append(@, [m EXCEPT !.outcome = NoOutcome])]
    /\ iteration' = iteration + 1
    /\ pc' = "loop"

\* the iteration is recorded, then continue: the next round of the for loop
Continue(m) ==
    /\ metrics' = [metrics EXCEPT !.iterations = Append(@, m)]
    /\ iteration' = iteration + 1
    /\ pc' = "loop"

\* faulty variant of write_text: a file that exists is left as it is
write_text_KeepExisting(file, text, by, it) ==
    IF file.exists THEN file ELSE File(text, by, it)

\* faulty variant of write_text: the text is appended to what the file holds
write_text_Append(file, text, by, it) == File(file.text \o text, by, it)

\* faulty variant of write_text: the write is lost
write_text_Lost(file, text, by, it) == file

\* path.write_text(text): the file is created or overwritten
write_text(file, text, by, it) == File(text, by, it)

\* _run_quality_gates returned: a failure (failed) ends the iteration;
\* otherwise the shutdown check, then run_triangular_verification down to the
\* Phase B call
AfterGatesStep(failed) ==
    /\ pc = "gates_done"
    /\ LET m == [iter_metrics EXCEPT !.gate_results = gate_results]
       IN  IF failed
           THEN /\ feedback_file' = write_text(feedback_file, gate_output, "gates", iteration)
                /\ iter_metrics' = [m EXCEPT !.outcome = GATE_FAIL]
                /\ Continue(iter_metrics')
                /\ UNCHANGED << runnerVars, counts >>
           ELSE /\ iter_metrics' = m
                /\ UNCHANGED << feedback_file, iteration >>
                /\ IF shutdown_requested
                     THEN /\ ShutdownBreak(iter_metrics')
                          /\ UNCHANGED << runnerVars, counts >>
                     ELSE /\ metrics' = metrics
                          /\ counts' = [counts EXCEPT !.verify = @ + 1]
                          /\ CallRunner("B", agent_b_prompt(requirements_file, cfg))
                          /\ pc' = "verify_b"
    /\ UNCHANGED << argVars, shutdown_requested, converged, handlers, retval, exc, gateVars,
                    blind_review_file, discrepancy_file, metrics_file, history >>

\* faulty variant of AfterGates: the verification is run whatever the gates said
AfterGates_VerifyAnyway == AfterGatesStep(FALSE)

\* faulty variant of AfterGates: the shutdown check comes before the test of
\* the verdict
AfterGates_ShutdownFirst == AfterGatesStep(~ gate_pass /\ ~ shutdown_requested)

\* if not gate_pass: ... continue
AfterGates == AfterGatesStep(~ gate_pass)

\* Phase B returned: the blind review is written, then the Phase C call
PhaseBDone ==
    /\ pc = "verify_b"
    /\ rpc = "returned"
    /\ blind_review_file' = write_text(blind_review_file, r_out.text, r_out.by, r_out.it)
    /\ CallRunner("C", agent_c_prompt(requirements_file, cfg))
    /\ pc' = "verify_c"
    /\ UNCHANGED << argVars, shutdown_requested, loopVars, gateVars, feedback_file,
                    discrepancy_file, metrics_file, history, counts >>

\* faulty variant of HasPassMarker: any report that is not empty passes
HasPassMarker_NonEmpty(report_text) == report_text # << >>

\* TRIANGULAR_PASS_MARKER in report_text
HasPassMarker(report_text) == Mentions(report_text, TRIANGULAR_PASS_MARKER)

\* faulty variant of Converge: the loop goes on to the next iteration
Converge_NoBreak ==
    /\ feedback_file' = NoFile
    /\ converged' = TRUE
    /\ iteration' = iteration + 1
    /\ pc' = "loop"

\* Phase 4: feedback_file.unlink(missing_ok=True); converged = True; break
Converge ==
    /\ feedback_file' = NoFile
    /\ converged' = TRUE
    /\ iteration' = iteration
    /\ pc' = "finally"

\* Phase C returned: the report is written and read back, the verdict is
\* returned to run_pipeline, which ends the iteration on it
PhaseCDone ==
    /\ pc = "verify_c"
    /\ rpc = "returned"
    /\ RunnerIdle
    /\ history' = [history EXCEPT ![iteration].report =
                      IF \E k \in 1..Len(r_out.text) : r_out.text[k].s = "TRIANGULAR_PASS"
                      THEN "marker" ELSE "no_marker"]
    /\ discrepancy_file' = write_text(discrepancy_file, r_out.text, r_out.by, r_out.it)
    /\ IF HasPassMarker(discrepancy_file'.text)
         THEN /\ iter_metrics' = [iter_metrics EXCEPT !.verification_status = PASS,
                                                      !.outcome = PASS]
              /\ metrics' = [metrics EXCEPT !.iterations = Append(@, iter_metrics')]
              /\ Converge
         ELSE /\ iter_metrics' = [iter_metrics EXCEPT !.verification_status = FAIL,
                                                      !.outcome = VERIFY_FAIL]
              /\ feedback_file' =
                    IF discrepancy_file'.exists
                    THEN write_text(feedback_file, discrepancy_file'.text, "verify", iteration)
                    ELSE write_text(feedback_file,
                                    << T("Triangular verification failed but no discrepancy report found.", 63) >>,
                                    "fallback", iteration)
              /\ Continue(iter_metrics')
              /\ UNCHANGED converged
    /\ UNCHANGED << argVars, shutdown_requested, handlers, retval, exc, gateVars,
                    blind_review_file, metrics_file, counts >>

\* the webhook_url argument: none, or a target
WebhookUrls == {"", "http://hook"}

\* the finally block (webhook_url is fixed here, where run_pipeline reads it),
\* then the return (or the exception goes on to the caller);
\* swallows: _send_webhook catches the exception of a failed delivery
FinallyStep(swallows, total) ==
    /\ pc = "finally"
    /\ handlers' = "original"
    /\ metrics' = [metrics EXCEPT !.total_iterations = total,
                                  !.converged = converged]
    /\ metrics_file' = File(<< >>, "metrics", 0)
    /\ webhook_url' \in WebhookUrls
    /\ \E delivered \in BOOLEAN :
          /\ counts' = [counts EXCEPT
                          !.saves = @ + 1,
                          !.webhooks = IF webhook_url' # "" THEN @ + 1 ELSE @,
                          !.delivered = IF webhook_url' # "" /\ delivered THEN @ + 1 ELSE @]
          /\ IF exc # NoError \/ (~ swallows /\ webhook_url' # "" /\ ~ delivered)
               THEN pc' = "raised" /\ retval' = retval
               ELSE pc' = "returned" /\ retval' = converged
    /\ UNCHANGED << max_iterations, max_retries, use_parallel, cfg, requirements_file,
                    claude_on_path, shutdown_requested, iteration, converged, iter_metrics, exc,
                    gateVars, runnerVars, feedback_file, blind_review_file, discrepancy_file,
                    history >>

\* faulty variant of Finally: a failed delivery raises out of run_pipeline
Finally_DeliveryFailureRaises == FinallyStep(FALSE, Len(metrics.iterations))

\* faulty variant of Finally: the total is taken from the loop variable
Finally_CountsLoopVariable == FinallyStep(TRUE, iteration)

\* metrics.total_iterations = len(metrics.iterations)
Finally == FinallyStep(TRUE, Len(metrics.iterations))

Next ==
    \/ Signal
    \/ Enter
    \/ LoopHead
    \/ RunnerAttempt
    \/ RunnerBackoff
    \/ RunnerExhausted
    \/ RunnerRaised
    \/ Phase1Done
    \/ SeqGate
    \/ SeqReturn
    \/ \E i \in 1..total_gates : GateWorker(i)
    \/ \E i \in 1..total_gates : Collect(i)
    \/ ParReturn
    \/ AfterGates
    \/ PhaseBDone
    \/ PhaseCDone
    \/ Finally

Spec == Init /\ [][Next]_vars

SpecReused == InitReused /\ [][Next]_vars
SpecDocs == InitDocs /\ [][Next]_vars

-----------------------------------------------------------------------------
\* Properties

Terminated == pc \in {"returned", "raised"}
Recorded == metrics.iterations
LastIsPass == Len(Recorded) > 0 /\ Last(Recorded).outcome = PASS
AllGates == 1..total_gates

\* sub occurs in text as a run of consecutive tokens
ContainsSeq(text, sub) ==
    \E k \in 0..(Len(text) - Len(sub)) : SubSeq(text, k + 1, k + Len(sub)) = sub

\* some iteration in which every configured gate passed and the agent's
\* discrepancy report held the pass marker
PassedInOneIteration ==
    \E i \in 1..Len(history) :
        history[i].passed = AllGates /\ history[i].report = "marker"

\* C1: run_pipeline returns true iff the last recorded IterationMetrics has
\* outcome Pass (and so does the converged field of the metrics), iff in one and
\* the same iteration every configured gate passed and the discrepancy report of
\* that iteration held the pass marker.
C1_ConvergedIffLastPassIffGatesAndMarker ==
    /\ pc = "returned" => (retval <=> LastIsPass)
    /\ Terminated =>
          /\ metrics.converged <=> LastIsPass
          /\ LastIsPass <=> PassedInOneIteration

\* a run that converged in its second iteration, with gates configured
C1_Witness ==
    /\ pc = "returned" /\ retval
    /\ total_gates = 2
    /\ Len(Recorded) = 2

\* C2: on every exit path of run_pipeline (convergence, exhaustion, shutdown,
\* an error in an iteration, the abort for a missing executable) the metrics are
\* finalized and persisted exactly once; after the abort the persisted totals
\* show zero iterations.
C2_MetricsPersistedOnceOnEveryExit ==
    Terminated =>
        /\ counts.saves = 1
        /\ metrics_file.exists
        /\ metrics.total_iterations = Len(Recorded)
        /\ (~ claude_on_path => metrics.total_iterations = 0)

\* C3: when the executable is missing at the start, the run returns false and
\* nothing of an iteration happens: no agent call, no gate phase, no
\* verification, no feedback file.
C3_MissingExecutableFailsFast ==
    ~ claude_on_path =>
        /\ pc \in {"entry", "returned"}
        /\ (pc = "returned" => retval = FALSE)
        /\ history = << >>
        /\ counts.impl = 0 /\ counts.gate_phases = 0 /\ counts.verify = 0
        /\ rpc = "idle" /\ r_attempts = 0
        /\ ~ feedback_file.exists
        /\ Recorded = << >>

C3_Witness == pc = "returned" /\ ~ claude_on_path /\ max_iterations > 0 /\ max_retries > 0

\* every gate phase of the run failed
EveryGatePhaseFailed == \A i \in 1..Len(history) : history[i].passed # AllGates

\* C4: a run that returns with no shutdown request and every gate phase failing
\* has made exactly max_iterations iterations: as many implementation calls and
\* gate phases, no verification, as many IterationMetrics, all GateFail, and
\* it returns false.
C4_BudgetExhaustion ==
    (pc = "returned" /\ claude_on_path /\ ~ shutdown_requested /\ EveryGatePhaseFailed) =>
        /\ counts.impl = max_iterations
        /\ counts.gate_phases = max_iterations
        /\ counts.verify = 0
        /\ Len(Recorded) = max_iterations
        /\ \A k \in 1..Len(Recorded) :
              Recorded[k].outcome = GATE_FAIL /\ Recorded[k].iteration = k
        /\ metrics.total_iterations = max_iterations
        /\ retval = FALSE

C4_Witness ==
    /\ pc = "returned" /\ claude_on_path /\ ~ shutdown_requested /\ EveryGatePhaseFailed
    /\ max_iterations = MaxIterations
    /\ Len(history) = MaxIterations

\* C5: under the sequential discipline the results are the declaration-order
\* prefix of the gates that ends with the first failing gate: every result but
\* the last is a pass, and no gate after a failing one is called.
C5_SequentialStopsAtFirstFailure ==
    (~ use_parallel /\ pc \in {"seq", "gates_done"} /\ total_gates > 0) =>
        LET n == Len(gate_results)
            h == history[iteration]
        IN  /\ h.called = 1..n
            /\ h.executed \subseteq 1..n
            /\ \A k \in 1..n : gate_results[k].name = GateName(k)
            /\ \A k \in 1..(n - 1) : gate_results[k].status = PASS
            /\ gate_pass <=> (n = 0 \/ gate_results[n].status = PASS)
            /\ (pc = "gates_done" /\ gate_pass) => n = total_gates
            /\ (pc = "gates_done" /\ ~ gate_pass) => gate_results[n].status = FAIL

\* the first of two executable gates failed and the phase is over
C5_Witness ==
    /\ ~ use_parallel /\ pc = "gates_done" /\ ~ gate_pass
    /\ cfg.lint_cmd = RuffCmd
    /\ Len(gate_results) = 1
    /\ history[iteration].executed = {1}

\* C6: under the parallel discipline every submitted gate is called whatever
\* the others do, the verdict exists only once every future was collected, there
\* is exactly one GateResult per gate, and the failure text holds the block of
\* every failed gate.
C6_ParallelCollectsAll ==
    /\ (use_parallel /\ pc = "par") => (gate_pass /\ gate_output = << >>)
    /\ (use_parallel /\ pc = "gates_done" /\ total_gates > 0) =>
          LET h == history[iteration]
          IN  /\ h.called = AllGates
              /\ \A i \in AllGates : futures[i].st = "consumed"
              /\ Len(gate_results) = total_gates
              /\ \A i \in AllGates :
                    /\ Cardinality({k \in 1..Len(gate_results) :
                                      gate_results[k].name = GateName(i)}) = 1
                    /\ \A k \in 1..Len(gate_results) :
                          gate_results[k].name = GateName(i) =>
                              (gate_results[k].status = PASS <=> i \in h.passed)
                    /\ i \notin h.passed =>
                          ContainsSeq(gate_output, GateName(i) \o << T(" FAILED:\n", 9) >>)
              /\ gate_pass <=> h.passed = AllGates
              /\ gate_pass => gate_output = << >>

\* two executable gates, both run and both failed
C6_Witness ==
    /\ use_parallel /\ pc = "gates_done"
    /\ total_gates = 2
    /\ history[iteration].executed = {1, 2}
    /\ history[iteration].passed = {}

\* the commands of the modelled projects that hold an unsafe pattern
UnsafeCmds == {SubstCmd, BacktickCmd, SemiRmCmd, AndRmCmd, DevNullCmd}
UnsafeGates == {i \in 1..Len(gates) : gates[i].cmd \in UnsafeCmds}
\* every GateResult of the run so far
AllResults ==
    {gate_results[k] : k \in 1..Len(gate_results)}
    \cup UNION {{Recorded[j].gate_results[k] : k \in 1..Len(Recorded[j].gate_results)} :
                  j \in 1..Len(Recorded)}

\* C7: a gate command with an unsafe pattern is never started, under either
\* discipline, and its result is a failure whose output begins with BLOCKED:.
C7_UnsafeCommandNeverExecuted ==
    \A i \in UnsafeGates :
        /\ _UNSAFE_PATTERN_search(gates[i].cmd)
        /\ \A it \in 1..Len(history) : i \notin history[it].executed
        /\ \A r \in AllResults :
              r.name = gates[i].name =>
                  /\ r.status = FAIL
                  /\ StartsWith(r.output,
                                << T("BLOCKED: command contains unsafe patterns: ", 43) >>)
        /\ \A k \in 1..Len(futures) :
              (k = i /\ futures[k].st = "done") =>
                  StartsWith(futures[k].output,
                             << T("BLOCKED: command contains unsafe patterns: ", 43) >>)

\* three unsafe commands were submitted in parallel and all have their result
C7_Witness ==
    /\ use_parallel /\ pc = "gates_done"
    /\ UnsafeGates = {1, 2, 3}
    /\ history[iteration].called = {1, 2, 3}
    /\ Len(gate_results) = 3

\* 2^1, 2^2, ...: the backoff before attempt 2, 3, ...
Backoffs == << 2, 4, 8, 16, 32 >>

\* C8: a call that returns made k attempts, the k-th being the successful one
\* whose output it returns, and slept k-1 times, 2^j seconds before attempt j+1.
C8_RetryReturnsFirstSuccess ==
    rpc = "returned" =>
        /\ 1 <= r_attempts /\ r_attempts <= max_retries
        /\ attempt = r_attempts
        /\ r_out.att = r_attempts
        /\ r_out.by = who
        /\ r_sleeps = SubSeq(Backoffs, 1, r_attempts - 1)
        /\ r_err = NoError

\* success on the second attempt after one sleep of 2 seconds
C8_Witness == rpc = "returned" /\ r_attempts = 2 /\ r_sleeps = << 2 >>

\* C9: a call all of whose max_retries attempts failed made exactly max_retries
\* attempts, did not sleep after the last one, and raises "claude failed after
\* max_retries attempts" without an output.
C9_ExhaustedRetriesRaise ==
    /\ (rpc = "raised" /\ r_err.kind = "failed_after_attempts" /\ max_retries >= 1) =>
          /\ r_attempts = max_retries
          /\ r_sleeps = SubSeq(Backoffs, 1, max_retries - 1)
          /\ r_err.n = max_retries
          /\ r_out = NoOut
    /\ (rpc \in {"try", "failed"} /\ r_attempts = max_retries /\ max_retries >= 1) =>
          /\ Len(r_sleeps) = max_retries - 1
          /\ r_out = NoOut
          /\ ~ ENABLED RunnerAttempt

C9_Witness ==
    /\ rpc = "raised" /\ r_err.kind = "failed_after_attempts"
    /\ max_retries = MaxRetries
    /\ r_attempts = MaxRetries

\* C10: an attempt that finds the executable missing ends the call at once with
\* the fatal condition: it is the last attempt and no sleep follows it.
C10_MissingExecutableAbortsRetries ==
    r_missing =>
        /\ rpc = "raised"
        /\ r_err.kind = "not_found"
        /\ r_attempts = attempt
        /\ Len(r_sleeps) = attempt - 1
        /\ r_out = NoOut

\* the first attempt of a call that may retry found the executable missing
C10_Witness == r_missing /\ rpc = "raised" /\ attempt = 1 /\ max_retries = MaxRetries

\* the agent's Phase C output is in the text of a report
HoldsMarker(text) == \E k \in 1..Len(text) : text[k].s = "TRIANGULAR_PASS"

\* C11: run_triangular_verification returns true iff TRIANGULAR_PASS occurs in
\* the discrepancy report it has just written, which is the Phase C output of
\* this attempt and not a report an earlier attempt or run left: every recorded
\* verification verdict is PASS iff the agent's Phase C output of that
\* iteration held the marker, and the report on disk is then one written by
\* agent C in that iteration or a later one.
C11_VerdictIffMarkerInFreshReport ==
    \A k \in 1..Len(Recorded) :
        Recorded[k].verification_status # SKIPPED =>
            /\ Recorded[k].verification_status \in {PASS, FAIL}
            /\ Recorded[k].verification_status = PASS <=> history[k].report = "marker"
            /\ discrepancy_file.exists /\ discrepancy_file.by = "C"
            /\ discrepancy_file.it >= k
            /\ discrepancy_file.it = k =>
                  (Recorded[k].verification_status = PASS <=> HoldsMarker(discrepancy_file.text))

\* the directory held a report with the marker, and the verification of
\* iteration 1, whose Phase C output has no marker, failed
C11_Witness ==
    /\ Len(Recorded) >= 1
    /\ Recorded[1].verification_status = FAIL
    /\ history[1].report = "no_marker"
    /\ discrepancy_file.it = 1
    /\ ~ HoldsMarker(discrepancy_file.text)

\* the iterations whose verification was run
Verified == {k \in 1..Len(Recorded) : Recorded[k].verification_status # SKIPPED}

\* C12: once an iteration has converged the run is over: only the finally
\* block and the return follow, the feedback file is absent, the converged
\* iteration is the last one started and recorded, and the numbers of
\* implementation calls, gate phases and verifications stay those of the
\* iterations recorded up to it.
C12_NothingAfterConvergence ==
    converged =>
        /\ pc \in {"finally", "returned"}
        /\ ~ feedback_file.exists
        /\ rpc = "idle"
        /\ Len(Recorded) = iteration /\ Len(history) = iteration
        /\ Last(Recorded).outcome = PASS
        /\ \A k \in 1..(Len(Recorded) - 1) : Recorded[k].outcome # PASS
        /\ counts.impl = iteration
        /\ counts.gate_phases = iteration
        /\ counts.verify = Cardinality(Verified)
        /\ (pc = "returned" => retval)

\* the run converged in iteration 1 of 2, in a directory that held a
\* feedback file, and has returned
C12_Witness ==
    /\ converged /\ pc = "returned"
    /\ iteration = 1 /\ max_iterations = MaxIterations
    /\ counts.impl = 1 /\ counts.verify = 1

\* the iterations started (an agent call was made for them) but not recorded
Unrecorded == {k \in 1..Len(history) : k > Len(Recorded)}

\* C13: an iteration aborted by a shutdown request is never recorded. Every
\* recorded IterationMetrics is that of an iteration that reached a terminal
\* phase, with the outcome of that phase; an iteration that was started and
\* left at a shutdown check has no IterationMetrics in the list and its outcome
\* is unmarked.
C13_AbortedIterationNotRecorded ==
    /\ Len(Recorded) <= Len(history)
    /\ \A k \in 1..Len(Recorded) :
          /\ Recorded[k].iteration = k
          /\ Recorded[k].phase1_done
          /\ Recorded[k].outcome \in {PASS, GATE_FAIL, VERIFY_FAIL}
          /\ Recorded[k].outcome = GATE_FAIL <=> history[k].passed # AllGates
          /\ Recorded[k].outcome = PASS <=> history[k].report = "marker"
          /\ Recorded[k].outcome = VERIFY_FAIL <=> history[k].report = "no_marker"
    /\ (pc \in {"finally", "returned"} /\ exc = NoError /\ Unrecorded # {}) =>
          /\ shutdown_requested
          /\ Unrecorded = {Len(history)}
          /\ iter_metrics.iteration = Len(history)
          /\ iter_metrics.outcome = NoOutcome
          /\ history[Len(history)].report = "none"
          /\ ~ converged
    /\ (pc \in {"finally", "returned"} /\ exc = NoError /\ shutdown_requested /\ ~ converged) =>
          Len(Recorded) <= max_iterations

\* iteration 2 was left at the shutdown check that follows a passing gate phase
C13_Witness ==
    /\ pc = "returned" /\ shutdown_requested
    /\ total_gates = 2
    /\ Len(history) = 2 /\ Len(Recorded) = 1
    /\ history[2].passed = AllGates
    /\ iter_metrics.outcome = NoOutcome

\* the phase in flight ends by itself: an agent call by returning or raising,
\* a gate batch by returning its verdict
PhaseEndsByItself ==
    /\ (pc \in {"phase1", "verify_b", "verify_c"} /\ pc' # pc) => rpc \in {"returned", "raised"}
    /\ (pc \in {"par", "seq"} /\ pc' # pc) =>
          /\ pc' = "gates_done" /\ gate_results' = gate_results
          /\ LET n == total_gates
             IN  /\ use_parallel =>
                       /\ \A i \in 1..n : futures[i].st = "consumed"
                       /\ Len(gate_results) = n
                 /\ ~ use_parallel => (Len(gate_results) = n \/ ~ gate_pass)

\* what is left of the agent call in flight: two steps for each attempt left
CallLeft ==
    CASE rpc = "try" -> 2 * (max_retries + 1 - attempt) + 1
      [] rpc = "failed" -> 2 * (max_retries + 1 - attempt)
      [] OTHER -> 0

\* what is left of the gate batch in flight
BatchLeft ==
    CASE pc = "seq" -> total_gates + 1 - gpos
      [] pc = "par" -> 2 * Cardinality({i \in DOMAIN futures : futures[i].st = "running"})
                       + Cardinality({i \in DOMAIN futures : futures[i].st = "done"})
      [] OTHER -> 0

\* the phases left once the flag is set, in the order the code runs them
PhasesLeft ==
    CASE pc = "phase1" -> 8
      [] pc \in {"seq", "par"} -> 7
      [] pc = "gates_done" -> 6
      [] pc = "verify_b" -> 5
      [] pc = "verify_c" -> 4
      [] pc = "loop" -> 3
      [] pc = "finally" -> 2
      [] OTHER -> 0

\* the step lowers the pair (PhasesLeft, CallLeft + BatchLeft) of natural
\* numbers in the lexicographic order
LessIsLeft ==
    /\ CallLeft' >= 0 /\ BatchLeft' >= 0
    /\ \/ PhasesLeft' < PhasesLeft
       \/ PhasesLeft' = PhasesLeft /\ CallLeft' + BatchLeft' < CallLeft + BatchLeft

\* the step that the code at pc takes next is possible
CanGoOn ==
    CASE pc = "loop" -> ENABLED LoopHead
      [] pc = "seq" -> ENABLED SeqGate \/ ENABLED SeqReturn
      [] pc = "par" -> \/ \E i \in DOMAIN futures : ENABLED GateWorker(i) \/ ENABLED Collect(i)
                       \/ ENABLED ParReturn
      [] pc = "gates_done" -> ENABLED AfterGates
      [] pc \in {"phase1", "verify_b", "verify_c"} ->
            CASE rpc = "try" -> ENABLED RunnerAttempt \/ ENABLED RunnerExhausted
              [] rpc = "failed" -> ENABLED RunnerBackoff
              [] rpc = "raised" -> ENABLED RunnerRaised
              [] rpc = "returned" -> ENABLED Phase1Done \/ ENABLED PhaseBDone \/ ENABLED PhaseCDone
              [] OTHER -> FALSE
      [] pc = "finally" -> ENABLED Finally
      [] OTHER -> FALSE

ResultsOf(results, i) ==
    {results[k] : k \in {j \in 1..Len(results) : results[j].name = GateName(i)}}

\* the result of a predicate that raised
IsRaisedResult(r, i) ==
    /\ r.status = FAIL
    /\ StartsWith(r.output, << T("Gate '", 6), callable_gates[i - Len(gates)],
                               T("' raised: ", 10) >>)

\* C15: a predicate gate that raises becomes a failed gate with the output
\* "Gate '<name>' raised: <error>" under both disciplines, and the error does
\* not leave the gate executor: the gate phase returns a failing verdict whose
\* text holds that output, the iteration is recorded as GateFail with that
\* GateResult, and the only exceptions run_pipeline raises are the agent
\* runner's.
C15_RaisingPredicateIsGateFailure ==
    \A it \in 1..Len(history) : \A i \in history[it].raised :
        /\ ~ IsCmdGate(i)
        /\ i \notin history[it].passed
        /\ (it = iteration /\ pc = "gates_done") =>
              /\ ~ gate_pass
              /\ ResultsOf(gate_results, i) # {}
              /\ \A r \in ResultsOf(gate_results, i) : IsRaisedResult(r, i)
              /\ ContainsSeq(gate_output,
                             GateName(i) \o << T(" FAILED:\n", 9), T("Gate '", 6) >>)
        /\ (it < Len(history) \/ pc \in {"loop", "finally", "returned", "raised"}) =>
              /\ it <= Len(Recorded)
              /\ Recorded[it].outcome = GATE_FAIL
              /\ ResultsOf(Recorded[it].gate_results, i) # {}
              /\ \A r \in ResultsOf(Recorded[it].gate_results, i) : IsRaisedResult(r, i)
        /\ exc.kind \in {"none", "not_found", "failed_after_attempts"}

\* the predicate raised under the parallel discipline, next to a plugin that
\* passed, and the run has returned
C15_Witness ==
    /\ pc = "returned" /\ use_parallel
    /\ Len(history) >= 1
    /\ history[1].raised = {2} /\ history[1].passed = {1}
    /\ Recorded[1].outcome = GATE_FAIL

\* C16: the webhook is best-effort. It is posted at most once in a run, in the
\* finally block after the metrics were saved, and only for a URL that is not
\* empty; whether the post is delivered or fails, run_pipeline returns its
\* converged value, raises only what an agent call raised, and the saved
\* metrics are those of the recorded iterations.
C16_WebhookIsBestEffort ==
    /\ counts.webhooks <= 1
    /\ counts.delivered <= counts.webhooks
    /\ counts.webhooks = 1 =>
          /\ Terminated
          /\ webhook_url = "http://hook"
          /\ counts.saves = 1
    /\ (Terminated /\ webhook_url \in {"", "unread"}) => counts.webhooks = 0
    /\ (Terminated /\ claude_on_path) =>
          /\ pc = "returned" <=> exc = NoError
          /\ pc = "returned" => (retval <=> converged)
          /\ metrics.converged <=> converged
          /\ metrics.total_iterations = Len(Recorded)
          /\ metrics_file.exists /\ metrics_file.by = "metrics"

\* a run that converged and whose webhook post failed
C16_Witness ==
    /\ pc = "returned" /\ retval
    /\ counts.webhooks = 1 /\ counts.delivered = 0

\* C17: a gate failure or a verification failure never ends the run early.
\* After a failed iteration i < max_iterations, with no shutdown requested,
\* iteration i+1 is started (or the loop head is about to start it); and a run
\* that ends having started fewer than max_iterations iterations, or with
\* fewer recorded, has converged, was asked to shut down, or ends with the
\* agent runner's exception.
C17_FailuresDoNotEndTheRun ==
    /\ \A i \in 1..Len(Recorded) :
          (/\ Recorded[i].outcome \in {GATE_FAIL, VERIFY_FAIL}
           /\ i < max_iterations
           /\ ~ shutdown_requested
           /\ pc # "loop") => Len(history) > i
    /\ (Terminated /\ claude_on_path /\ ~ converged /\ ~ shutdown_requested /\ exc = NoError) =>
          /\ Len(history) = max_iterations
          /\ Len(Recorded) = max_iterations
          /\ \A i \in 1..Len(Recorded) : Recorded[i].outcome \in {GATE_FAIL, VERIFY_FAIL}

\* the verification of iteration 1 failed, the gates of iteration 2 failed,
\* and the run ended with its budget used up
C17_Witness ==
    /\ pc = "returned" /\ ~ shutdown_requested /\ ~ converged
    /\ max_iterations = MaxIterations
    /\ Len(Recorded) = MaxIterations
    /\ Recorded[1].outcome = VERIFY_FAIL
    /\ Recorded[Len(Recorded)].outcome = GATE_FAIL

\* C18: on every exit path of run_pipeline, return or raise, the SIGINT and
\* SIGTERM handlers installed before the call are restored.
C18_HandlersRestoredOnEveryExit ==
    Terminated => handlers = "original"

\* C19: at every iteration boundary (the head of the loop) and at the end of
\* the run, the feedback file exists iff at least one iteration has reached a
\* terminal phase and the last one that did, did not converge.
C19_FeedbackExistsIffLastAttemptFailed ==
    (pc \in {"loop", "finally", "returned", "raised"}) =>
        (feedback_file.exists <=> (Len(Recorded) > 0 /\ Last(Recorded).outcome # PASS))

\* C20: in every recorded iteration, and in the results of the gate phase in
\* progress, no two GateResults have the same gate name.
C20_OneResultPerGateName ==
    /\ \A j, k \in 1..Len(gate_results) :
          gate_results[j].name = gate_results[k].name => j = k
    /\ \A it \in 1..Len(Recorded) :
          \A j, k \in 1..Len(Recorded[it].gate_results) :
              Recorded[it].gate_results[j].name = Recorded[it].gate_results[k].name => j = k

\* C21: the outcome of an iteration is set exactly when the iteration reached
\* one of its three ends. Every recorded iteration carries Pass, GateFail or
\* VerifyFail, and the one that matches what happened in it: Pass when its
\* report held the marker, VerifyFail when its report did not, GateFail when
\* no report was made because a gate had not passed. The iteration in flight,
\* which has reached no end yet, carries no outcome.
C21_OutcomeSetIffTerminalPhase ==
    /\ \A k \in 1..Len(Recorded) :
          /\ Recorded[k].outcome \in {PASS, GATE_FAIL, VERIFY_FAIL}
          /\ Recorded[k].outcome = PASS <=> history[k].report = "marker"
          /\ Recorded[k].outcome = VERIFY_FAIL <=> history[k].report = "no_marker"
          /\ Recorded[k].outcome = GATE_FAIL <=>
                (history[k].report = "none" /\ history[k].passed # AllGates)
    /\ iter_metrics.outcome = NoOutcome <=> iter_metrics.iteration \notin 1..Len(Recorded)
    /\ iter_metrics.outcome # NoOutcome => Recorded[iter_metrics.iteration] = iter_metrics

\* a second iteration is in flight, past its Phase 1, after a first that
\* ended in VerifyFail
C21_Witness ==
    /\ Len(Recorded) = 1
    /\ Recorded[1].outcome = VERIFY_FAIL
    /\ iter_metrics.iteration = 2
    /\ iter_metrics.phase1_done
    /\ iter_metrics.outcome = NoOutcome

\* C22: Phase B is blind to what the requirements document says. While the
\* Phase B call is in flight, its prompt is the one the run would have built
\* for any requirements document at the same path, and no piece of the
\* document's text occurs in it. The prompt is made of the context file
\* lists, the changed-file list and the path of the requirements document,
\* which it names in the instruction not to read it.
C22_PhaseBPromptHoldsNoRequirementsText ==
    (who = "B" /\ rpc # "idle") =>
        /\ \A d \in RequirementsDocs :
              d.path = requirements_file.path => agent_b_prompt(d, cfg) = r_prompt
        /\ \A k \in 1..Len(requirements_file.text) :
              ~ Mentions(r_prompt, requirements_file.text[k])
        /\ \A k \in 1..Len(cfg.changed_files) : ContainsSeq(r_prompt, cfg.changed_files[k])
        /\ \A k \in 1..Len(cfg.instruction_files) :
              ContainsSeq(r_prompt, cfg.instruction_files[k])
        /\ \A k \in 1..Len(cfg.design_docs) : ContainsSeq(r_prompt, cfg.design_docs[k])
        /\ Mentions(r_prompt, requirements_file.path)

\* the Phase B call is in flight for the document at docs/spec.md, in a
\* project that has convention files
C22_Witness ==
    /\ who = "B"
    /\ rpc = "try"
    /\ requirements_file.path = T("docs/spec.md", 12)
    /\ cfg.instruction_files # << >>

\* C22 as first stated: the Phase B prompt is the same for any two runs that
\* differ only in the requirements document
C22_PromptSameForAnyRequirements ==
    (who = "B" /\ rpc # "idle") =>
        \A d \in RequirementsDocs : agent_b_prompt(d, cfg) = r_prompt

\* the iterations whose verification came to its verdict
VerdictsOf == {k \in 1..Len(history) : history[k].report # "none"}

\* C23: the phases of an iteration run in the order implementation, gates,
\* verification. The gate phase of an iteration is entered only after its
\* Phase 1 call returned; a verification is started only in an iteration
\* whose gate phase called every gate and saw every gate pass; an iteration
\* with a gate that did not pass gets no verification call, ends as GateFail
\* and leaves the loop at the head of the next iteration.
C23_PhasesInOrderVerifyOnlyAfterGatesPassed ==
    /\ counts.impl = Len(history)
    /\ counts.gate_phases \in {counts.impl - 1, counts.impl} \cap Nat
    /\ pc = "phase1" =>
          /\ counts.gate_phases = counts.impl - 1
          /\ ~ iter_metrics.phase1_done
          /\ history[iteration].called = {}
    /\ pc \in {"seq", "par", "gates_done", "verify_b", "verify_c"} =>
          /\ counts.gate_phases = counts.impl
          /\ iter_metrics.phase1_done
    /\ pc \in {"seq", "par", "gates_done"} => iteration \notin VerdictsOf /\ who = "none"
    /\ pc \in {"verify_b", "verify_c"} =>
          /\ history[iteration].called = AllGates
          /\ history[iteration].passed = AllGates
    /\ \A k \in VerdictsOf : history[k].called = AllGates /\ history[k].passed = AllGates
    /\ counts.verify \in {Cardinality(VerdictsOf), Cardinality(VerdictsOf) + 1}
    /\ counts.verify = Cardinality(VerdictsOf) + 1 =>
          /\ history[Len(history)].passed = AllGates
          /\ Len(history) \notin VerdictsOf
    /\ \A k \in 1..Len(history) :
          history[k].passed # history[k].called =>
              /\ k \notin VerdictsOf
              /\ (k < Len(history) \/ pc \in {"loop", "finally", "return", "raised"}) =>
                    /\ Recorded[k].outcome = GATE_FAIL
                    /\ (k = Len(history) /\ pc = "loop") => iteration = k + 1

\* after a first iteration that a gate failed, the second has passed its
\* gates and its Phase C call is in flight
C23_Witness ==
    /\ pc = "verify_c"
    /\ iteration = 2
    /\ total_gates > 1
    /\ Recorded[1].outcome = GATE_FAIL
    /\ history[2].passed = AllGates

\* C24: a verification is two agent calls, Phase B and then Phase C. While
\* the Phase B call is in flight neither artifact of this iteration exists
\* yet. While the Phase C call is in flight, the blind review holds the
\* output of this iteration's Phase B call, and the Phase C prompt names the
\* requirements document and the blind review and nothing of the project:
\* it is the same for every project configuration and names no changed
\* file. Once the verdict of an iteration is in, the discrepancy report
\* holds the output of that iteration's Phase C call.
C24_TwoCallsArtifactsPersistedInOrder ==
    /\ who = "B" <=> pc = "verify_b"
    /\ who = "C" <=> pc = "verify_c"
    /\ pc = "verify_b" =>
          /\ ~ (blind_review_file.by = "B" /\ blind_review_file.it = iteration)
          /\ ~ (discrepancy_file.by = "C" /\ discrepancy_file.it = iteration)
    /\ pc = "verify_c" =>
          /\ blind_review_file.exists
          /\ blind_review_file.by = "B"
          /\ blind_review_file.it = iteration
          /\ blind_review_file.text \in AgentTexts("B")
          /\ ~ (discrepancy_file.by = "C" /\ discrepancy_file.it = iteration)
          /\ Mentions(r_prompt, requirements_file.path)
          /\ Mentions(r_prompt, BlindReviewPath)
          /\ \A c \in Setups \cup {TwinPluginSetup} :
                agent_c_prompt(requirements_file, c) = r_prompt
          /\ \A k \in 1..Len(cfg.changed_files) :
                ~ ContainsSeq(r_prompt, cfg.changed_files[k])
    /\ \A k \in VerdictsOf :
          k = Len(history) =>
              /\ discrepancy_file.exists
              /\ discrepancy_file.by = "C"
              /\ discrepancy_file.it = k
              /\ blind_review_file.by = "B"
              /\ blind_review_file.it = k

\* the Phase C call of a second iteration is in flight, in an output
\* directory that held a blind review before the run
C24_Witness ==
    /\ pc = "verify_c"
    /\ rpc = "try"
    /\ iteration = 2
    /\ 1 \in VerdictsOf
    /\ cfg.changed_files # << >>
    /\ discrepancy_file.it = 1

\* the futures of the gate phase in state st
FuturesIn(st) == {i \in DOMAIN futures : futures[i].st = st}

\* C25: under the parallel discipline every gate is submitted before any
\* result is looked at, each result is consumed (made a GateResult, added to
\* the failure list) once its own gate has completed, in the order in which
\* the gates complete and while others may still run, and the verdict and the
\* failure text are computed, and the executor returns, only after every
\* submitted gate has completed and its result was consumed.
C25_ResultsConsumedAsCompletedVerdictAfterAll ==
    /\ (use_parallel /\ pc = "par") =>
          /\ DOMAIN futures = AllGates
          /\ FuturesIn("none") = {}
          /\ FuturesIn("done") \cup FuturesIn("consumed") = history[iteration].called
          /\ Len(gate_results) = Cardinality(FuturesIn("consumed"))
          /\ \A k \in 1..Len(gate_results) :
                \E i \in FuturesIn("consumed") : gate_results[k].name = GateName(i)
          /\ Len(failures) = Cardinality(FuturesIn("consumed") \ history[iteration].passed)
          /\ gate_pass
          /\ gate_output = << >>
    /\ (use_parallel /\ pc = "gates_done" /\ total_gates > 0) =>
          /\ FuturesIn("consumed") = AllGates
          /\ Len(failures) = Cardinality(AllGates \ history[iteration].passed)
          /\ gate_output = Join(failures, << T("\n\n", 2) >>)

\* the result of the second gate is consumed while the first gate still runs
C25_Witness ==
    /\ use_parallel /\ pc = "par"
    /\ total_gates = 2
    /\ futures[1].st = "running"
    /\ futures[2].st = "consumed"
    /\ Len(gate_results) = 1
    /\ Len(failures) = 1

\* C25 as first stated: no result is consumed until every submitted gate has
\* completed
C25_NothingConsumedBeforeAllComplete ==
    (use_parallel /\ pc = "par" /\ FuturesIn("running") # {}) =>
        /\ FuturesIn("consumed") = {}
        /\ gate_results = << >>
        /\ failures = << >>

C27_NoCallBlocksForever ==
    /\ pc # "blocked"
    /\ FuturesIn("blocked") = {}

\* C28: once an agent call of an iteration has raised (retries exhausted, or
\* the executable missing), in Phase 1, Phase B or Phase C, the run is at its
\* end: only the finally block is left, the iteration in flight is not
\* recorded and has no outcome, it is the last one started, no recorded
\* iteration is a Pass and the run is not converged; when the exception has
\* left run_pipeline the metrics are saved, once, with converged false and
\* the count of the recorded iterations.
C28_RunnerErrorEndsTheRun ==
    (exc # NoError /\ history # << >>) =>
        /\ exc.kind \in {"not_found", "failed_after_attempts"}
        /\ pc \in {"finally", "raised"}
        /\ iteration = Len(history)
        /\ counts.impl = Len(history)
        /\ Len(Recorded) = Len(history) - 1
        /\ iter_metrics.iteration = Len(history)
        /\ iter_metrics.outcome = NoOutcome
        /\ \A k \in 1..Len(Recorded) : Recorded[k].outcome # PASS
        /\ ~ converged
        /\ pc = "finally" => counts.saves = 0
        /\ pc = "raised" =>
              /\ counts.saves = 1
              /\ metrics_file.exists
              /\ metrics_file.by = "metrics"
              /\ ~ metrics.converged
              /\ metrics.total_iterations = Len(Recorded)
              /\ retval = FALSE
              /\ handlers = "original"

\* the Phase C call of the second iteration exhausted its retries, and the
\* exception has left run_pipeline
C28_Witness ==
    /\ pc = "raised"
    /\ exc.kind = "failed_after_attempts"
    /\ Len(history) = 2
    /\ history[2].passed = AllGates
    /\ blind_review_file.it = 2
    /\ Len(Recorded) = 1

\* C29: after an iteration that failed, and until a later iteration ends, the
\* feedback file holds the failure context of that iteration and nothing
\* else: written in that iteration, it is the failure text that the gate
\* executor returned when the iteration ended in GateFail, and the text of the
\* discrepancy report of that iteration when it ended in VerifyFail (the
\* fallback message if there is no report file). What the file held before,
\* from an earlier iteration or an earlier run, is gone.
C29_FeedbackOverwrittenWithFailureContext ==
    (Len(Recorded) > 0 /\ Last(Recorded).outcome # PASS) =>
        LET k == Len(Recorded)
        IN  /\ feedback_file.exists
            /\ feedback_file.it = k
            /\ feedback_file.text # << >>
            /\ Last(Recorded).outcome = GATE_FAIL =>
                  /\ feedback_file.by = "gates"
                  /\ counts.gate_phases = k => feedback_file.text = gate_output
                  /\ \E j \in 1..Len(Recorded[k].gate_results) :
                        /\ Recorded[k].gate_results[j].status = FAIL
                        /\ StartsWith(feedback_file.text, Recorded[k].gate_results[j].name)
            /\ Last(Recorded).outcome = VERIFY_FAIL =>
                  IF discrepancy_file.exists
                  THEN /\ feedback_file.by = "verify"
                       /\ discrepancy_file.by = "C"
                       /\ discrepancy_file.it = k
                       /\ feedback_file.text = discrepancy_file.text
                       /\ feedback_file.text \in AgentTexts("C")
                  ELSE /\ feedback_file.by = "fallback"
                       /\ feedback_file.text =
                            << T("Triangular verification failed but no discrepancy report found.", 63) >>

\* the second iteration ended in VerifyFail after a first that ended in
\* GateFail, in an output directory that held a feedback file before the run
C29_Witness ==
    /\ Len(Recorded) = 2
    /\ Recorded[1].outcome = GATE_FAIL
    /\ Recorded[2].outcome = VERIFY_FAIL
    /\ feedback_file.by = "verify"
    /\ pc = "loop"

\* C30: while the Phase 1 call of iteration 1 is in flight its prompt is the
\* text of the prompt file, whatever the feedback file holds; while the
\* Phase 1 call of a later iteration i is in flight its prompt is the
\* corrective prompt: it names the path of the prompt file and iteration
\* i - 1 and embeds the text of the feedback file, which was written at the
\* end of iteration i - 1.
C30_ImplementationPromptOriginalThenCorrective ==
    (who = "impl" /\ rpc # "idle") =>
        IF iteration = 1
        THEN r_prompt = prompt_file.text
        ELSE /\ feedback_file.exists
             /\ feedback_file.it = iteration - 1
             /\ feedback_file.by \in {"gates", "verify", "fallback"}
             /\ r_prompt = CorrectivePrompt(iteration, feedback_file.text)
             /\ ContainsSeq(r_prompt, feedback_file.text)
             /\ Mentions(r_prompt, prompt_file.path)
             /\ Mentions(r_prompt, T(ToString(iteration - 1), 1))
             /\ ~ ContainsSeq(r_prompt, prompt_file.text)

\* the Phase 1 call of the second iteration is in flight after a first
\* iteration that a gate failed, in an output directory that held a feedback
\* file before the run
C30_Witness ==
    /\ who = "impl"
    /\ rpc = "try"
    /\ iteration = 2
    /\ feedback_file.by = "gates"
    /\ TextLen(r_prompt) > TextLen(feedback_file.text)

\* the built-in gates that are configured, in the order lint, test, security
BuiltIns ==
    SelectSeq(<< [name |-> << T("lint", 4) >>, cmd |-> cfg.lint_cmd],
                 [name |-> << T("test", 4) >>, cmd |-> cfg.test_cmd],
                 [name |-> << T("security", 8) >>, cmd |-> cfg.security_cmd] >>,
              LAMBDA g : g.cmd # NoCmd)
\* the files of the plugin directory that are plugins
PluginFiles == {f \in cfg.plugin_dir : f.suffix \in {".sh", ".py"} /\ f.is_file}

\* C31: the gate list is the configured built-in gates in the order lint,
\* test, security, then one gate plugin:<stem> for each plugin file, in the
\* order of the file names, then the predicate gates as callable:<name> in
\* the order given; under the sequential discipline the gates are started in
\* this order: the k-th line that announces a gate names gate k.
C31_GateListInDeclarationOrder ==
    LET b == Len(BuiltIns)
        n == Len(gates)
    IN  /\ SubSeq(gates, 1, b) = BuiltIns
        /\ n - b = Cardinality(PluginFiles)
        /\ \A i \in (b + 1)..n :
              \E f \in PluginFiles :
                  /\ gates[i].name = << T("plugin:", 7), f.stem >>
                  /\ gates[i].cmd[Len(gates[i].cmd)] = f.name
                  /\ Cardinality({g \in PluginFiles : g.rank < f.rank}) = i - b - 1
        /\ \A i \in 1..total_gates :
              GateName(i) = IF i <= n THEN gates[i].name
                            ELSE << T("callable:", 9), cfg.custom_gates[i - n] >>
        /\ (~ use_parallel /\ pc \in {"seq", "gates_done"} /\ total_gates > 0) =>
              /\ Len(run_log) = 2 * Len(gate_results)
              /\ \A k \in 1..Len(gate_results) :
                    /\ StartsWith(run_log[2 * k - 1].line,
                                  << T("[Phase 2] Running ", 18) >> \o GateName(k))
                    /\ gate_results[k].name = GateName(k)

\* the two plugins of a directory that holds a-check.py and a-check.sh have
\* run in turn, the .py first
C31_Witness ==
    /\ ~ use_parallel /\ pc = "gates_done"
    /\ cfg = TwinPluginSetup
    /\ Len(gate_results) = 2
    /\ gates[1].cmd = << T("python3", 7), WS, T("a-check.py", 10) >>
    /\ gates[2].cmd = << T("bash", 4), WS, T("a-check.sh", 10) >>

\* C32: the output of every GateResult of the run, of the gate phase in
\* progress and of the recorded iterations, is at most 500 characters long,
\* whatever the kind of gate, the discipline and the way the gate ended.
C32_StoredOutputAtMostLimit ==
    \A r \in AllResults : TextLen(r.output) <= GATE_OUTPUT_LIMIT

\* a recorded iteration holds the result of a command that exited with 1 and
\* printed 600 characters: 500 of them are stored
C32_Witness ==
    /\ Len(Recorded) > 0
    /\ \E r \in AllResults :
          /\ r.status = FAIL
          /\ TextLen(r.output) = GATE_OUTPUT_LIMIT
          /\ r.output = << T("stdout", 300), T("stderr", 200) >>
    /\ TextLen(feedback_file.text) > GATE_OUTPUT_LIMIT

\* text without its first n tokens
DropTokens(text, n) == SubSeq(text, n + 1, Len(text))

\* text is the block head followed by an output whose first 500 characters
\* are stored
IsBlock(text, head, stored) ==
    /\ StartsWith(text, head)
    /\ Slice(DropTokens(text, Len(head)), GATE_OUTPUT_LIMIT) = stored

\* C33: under the sequential discipline the failure text is empty as long as
\* no gate has failed, and after a failure it is the block of the one gate
\* that failed, the last one run: for a command gate, built-in or plugin,
\* <name> (<cmd>) FAILED: and a newline, then the output of the gate; for a
\* predicate gate callable:<name> FAILED: and a newline, then its output,
\* with no command part.
C33_SequentialFailureTextIsOneBlock ==
    (~ use_parallel /\ pc \in {"seq", "gates_done"} /\ total_gates > 0) =>
        IF gate_pass
        THEN gate_output = << >>
        ELSE LET n == Len(gate_results)
             IN  /\ gate_results[n].status = FAIL
                 /\ IF IsCmdGate(n)
                    THEN IsBlock(gate_output,
                                 gates[n].name \o << T(" (", 2) >> \o gates[n].cmd
                                     \o << T(") FAILED:\n", 10) >>,
                                 gate_results[n].output)
                    ELSE IsBlock(gate_output,
                                 << T("callable:", 9), callable_gates[n - Len(gates)],
                                    T(" FAILED:\n", 9) >>,
                                 gate_results[n].output)

\* the plugin passed and the predicate gate after it raised
C33_Witness ==
    /\ ~ use_parallel /\ pc = "gates_done" /\ ~ gate_pass
    /\ cfg = PluginSetup
    /\ Len(gate_results) = 2
    /\ history[iteration].raised = {2}

\* C33 as first stated: the failure text has the form <name> (<cmd>) FAILED:
\* whichever kind of gate failed
C33_EveryBlockNamesACommand ==
    (~ use_parallel /\ pc = "gates_done" /\ ~ gate_pass) =>
        /\ StartsWith(gate_output, GateName(Len(gate_results)) \o << T(" (", 2) >>)
        /\ Mentions(gate_output, T(") FAILED:\n", 10))

\* C34: in a project with no gate at all the gate phase returns at once,
\* under either discipline, as passed, with no result and no failure text;
\* no iteration is recorded as GateFail, every recorded iteration went
\* through verification and holds no GateResult, and the run is converged
\* exactly when the report of its last verification held the marker.
C34_NoGatesCountsAsPassed ==
    total_gates = 0 =>
        /\ pc \notin {"seq", "par"}
        /\ gate_pass
        /\ gate_results = << >>
        /\ gate_output = << >>
        /\ \A k \in 1..Len(Recorded) :
              /\ Recorded[k].gate_results = << >>
              /\ Recorded[k].outcome \in {PASS, VERIFY_FAIL}
              /\ history[k].called = {}
              /\ history[k].report # "none"
        /\ converged <=> (history # << >> /\ Last(history).report = "marker")
        /\ (pc = "returned" /\ ~ shutdown_requested) =>
              (retval <=> (history # << >> /\ Last(history).report = "marker"))

\* a run without gates has converged in its second iteration, under the
\* parallel discipline
C34_Witness ==
    /\ total_gates = 0
    /\ use_parallel
    /\ pc = "returned"
    /\ retval
    /\ Len(Recorded) = 2
    /\ run_log # << >>

\* C35: the recorded iterations carry strictly increasing indices within
\* 1..max_iterations, so there are at most max_iterations of them; once the
\* metrics are saved, total_iterations is the length of the list; with
\* max_iterations <= 0 nothing is recorded, the total is 0 and the run returns
\* false; an outcome Pass stands only in the last position, so at most once.
C35_RecordedIterationsAreWellFormed ==
    /\ \A k \in 1..Len(Recorded) :
          /\ Recorded[k].iteration \in 1..max_iterations
          /\ k > 1 => Recorded[k - 1].iteration < Recorded[k].iteration
          /\ Recorded[k].outcome = PASS => k = Len(Recorded)
    /\ Len(Recorded) <= max_iterations
    /\ counts.saves \in {0, 1}
    /\ counts.saves = 1 =>
          /\ metrics_file.exists
          /\ metrics.total_iterations = Len(Recorded)
          /\ metrics.total_iterations <= max_iterations
    /\ max_iterations <= 0 =>
          /\ Recorded = << >>
          /\ metrics.total_iterations = 0
          /\ ~ converged
          /\ pc = "returned" => ~ retval

\* a run of two iterations has been saved: a failure, then the only Pass
C35_Witness ==
    /\ pc = "returned"
    /\ counts.saves = 1
    /\ metrics.total_iterations = 2
    /\ Recorded[1].outcome # PASS
    /\ Recorded[2].outcome = PASS
    /\ Recorded[2].iteration = 2

\* C36: every recorded IterationMetrics agrees with its outcome: phase1_done
\* is true; GateFail comes with a GateResult of status Fail and a skipped
\* verification; VerifyFail comes with only passing GateResults and a failed
\* verification; Pass comes with only passing GateResults and a passed
\* verification.
C36_RecordedMetricsAgreeWithOutcome ==
    \A k \in 1..Len(Recorded) :
        LET m == Recorded[k]
            statuses == {m.gate_results[j].status : j \in 1..Len(m.gate_results)}
        IN  /\ m.phase1_done
            /\ m.outcome \in {PASS, GATE_FAIL, VERIFY_FAIL}
            /\ m.outcome = GATE_FAIL =>
                  FAIL \in statuses /\ m.verification_status = SKIPPED
            /\ m.outcome = VERIFY_FAIL =>
                  statuses \subseteq {PASS} /\ m.verification_status = FAIL
            /\ m.outcome = PASS =>
                  statuses \subseteq {PASS} /\ m.verification_status = PASS

\* a gate failure, then a pass with gate results, are both recorded
C36_Witness ==
    /\ Len(Recorded) = 2
    /\ Recorded[1].outcome = GATE_FAIL
    /\ Recorded[2].outcome = PASS
    /\ Recorded[2].gate_results # << >>

\* what the gate phase of the run returned
Returned == [gate_pass |-> gate_pass, gate_output |-> gate_output, results |-> gate_results]
ResultSet(results) == {results[j] : j \in 1..Len(results)}
\* the gate at which the sequential executor stopped
SeqFailing(o) == Len(_run_gates_sequential(o).results)

\* C37: for one gate list and one way for every gate to end, the sequential
\* and the parallel executor return the same verdict, whatever the order of
\* completion; when every gate passes they record the same set of
\* GateResults; when a gate fails the sequential results are among the
\* parallel ones and the gate the sequential executor stopped at is named in
\* the parallel failure text. The comparison depends on the configuration
\* only and is made when run_pipeline is entered. What a run's gate phase
\* returned is the value of its executor for some way of the gates to end.
C37_DisciplinesAgree ==
    /\ pc = "entry" =>
          \A o \in GateVerdicts : \A order \in CompletionOrders :
              LET s == _run_gates_sequential(o)
                  p == _run_gates_parallel(o, order)
              IN  /\ s.gate_pass = p.gate_pass
                  /\ s.gate_pass => ResultSet(s.results) = ResultSet(p.results)
                  /\ ~ s.gate_pass =>
                        /\ ResultSet(s.results) \subseteq ResultSet(p.results)
                        /\ ContainsSeq(p.gate_output,
                                       GateName(SeqFailing(o)) \o << T(" FAILED:\n", 9) >>)
    /\ (pc = "gates_done" /\ total_gates > 0) =>
          IF use_parallel
          THEN \E o \in GateVerdicts : \E order \in CompletionOrders :
                  Returned = _run_gates_parallel(o, order)
          ELSE \E o \in GateVerdicts : Returned = _run_gates_sequential(o)

\* a parallel gate phase returned two results, the first gate of the list
\* failing; the sequential executor stops after one result on the same gates
C37_Witness ==
    /\ pc = "gates_done"
    /\ use_parallel
    /\ total_gates = 2
    /\ ~ gate_pass
    /\ \E o \in GateVerdicts : \E order \in CompletionOrders :
          /\ Returned = _run_gates_parallel(o, order)
          /\ order[1] = 2
          /\ Len(_run_gates_sequential(o).results) = 1
          /\ Len(gate_results) = 2

Placeholder == << T("No specific feedback available", 30) >>

\* C38: when the for loop comes to an iteration i > 1, and while the Phase 1
\* call of that iteration is in flight, iteration i - 1 is the last recorded
\* one and it failed in its gates or in its verification, the feedback file
\* exists and was written at the end of iteration i - 1 by the phase that
\* failed; no implementation prompt holds the placeholder text.
C38_FeedbackAlwaysThereForLaterIterations ==
    /\ (iteration > 1 /\ pc \in {"loop", "phase1"}) =>
          /\ Len(Recorded) = iteration - 1
          /\ Last(Recorded).iteration = iteration - 1
          /\ Last(Recorded).outcome \in {GATE_FAIL, VERIFY_FAIL}
          /\ feedback_file.exists
          /\ feedback_file.it = iteration - 1
          /\ feedback_file.by = "gates" <=> Last(Recorded).outcome = GATE_FAIL
          /\ feedback_file.by \in {"verify", "fallback"} <=> Last(Recorded).outcome = VERIFY_FAIL
    /\ (who = "impl" /\ rpc # "idle") => ~ ContainsSeq(r_prompt, Placeholder)

\* the Phase 1 call of the second iteration is in flight after a first
\* iteration whose verification failed, in an output directory that was empty
\* before the run
C38_Witness ==
    /\ iteration = 2
    /\ pc = "phase1"
    /\ who = "impl"
    /\ rpc = "try"
    /\ Recorded[1].outcome = VERIFY_FAIL
    /\ feedback_file.by \in {"verify", "fallback"}
    /\ ContainsSeq(r_prompt, feedback_file.text)

\* the step of run_pipeline that follows a failed gate phase, and the one that
\* follows the return of Phase C, taken while the shutdown flag is set
EndsFailedGatePhase ==
    pc = "gates_done" /\ ~ gate_pass /\ shutdown_requested /\ pc' # pc
EndsVerification ==
    pc = "verify_c" /\ rpc = "returned" /\ shutdown_requested /\ pc' # pc
RecordsIteration(outcome) ==
    /\ Len(Recorded') = Len(Recorded) + 1
    /\ SubSeq(Recorded', 1, Len(Recorded)) = Recorded
    /\ Last(Recorded').iteration = iteration
    /\ Last(Recorded').outcome = outcome
    /\ Last(Recorded').gate_results = gate_results

\* what these two steps do
KeepsTerminalIteration ==
    /\ EndsFailedGatePhase =>
          /\ RecordsIteration(GATE_FAIL)
          /\ feedback_file' = File(gate_output, "gates", iteration)
    /\ EndsVerification =>
          IF HasPassMarker(r_out.text)
          THEN /\ RecordsIteration(PASS)
               /\ converged'
               /\ pc' = "finally"
          ELSE /\ RecordsIteration(VERIFY_FAIL)
               /\ feedback_file'.exists
               /\ feedback_file'.it = iteration
               /\ feedback_file'.by \in {"verify", "fallback"}
               /\ feedback_file'.text = r_out.text

\* C39: a shutdown request does not discard an iteration that reaches a
\* terminal phase. With the flag set, the step after a failed gate phase
\* records the iteration as GateFail and writes the failure text to the
\* feedback file; the step after Phase C records the iteration as Pass and
\* sets converged when the report holds the marker, and records it as
\* VerifyFail and writes the feedback otherwise. A converged run returns true
\* whether or not the flag is set.
C39_ShutdownKeepsTerminalIterations ==
    [][KeepsTerminalIteration]_vars /\ [](pc = "returned" /\ converged => retval)

\* Phase C has returned a report with the marker while the flag is set: the
\* step that follows is the one the claim is about
C39_Witness ==
    /\ pc = "verify_c"
    /\ rpc = "returned"
    /\ shutdown_requested
    /\ HasPassMarker(r_out.text)
    /\ iteration = 2
    /\ Recorded[1].outcome = GATE_FAIL

\* C40: with max_retries <= 0 a call of the runner starts no subprocess and
\* does not sleep; it raises "claude failed after max_retries attempts". A
\* run that calls the runner therefore ends by that exception in the
\* implementation phase of iteration 1: no gate phase, no verification, no
\* recorded iteration, no convergence.
C40_NoRetriesMeansNoAttempt ==
    max_retries <= 0 =>
        /\ r_attempts = 0
        /\ r_sleeps = << >>
        /\ r_out = NoOut
        /\ ~ r_missing
        /\ rpc \in {"idle", "try", "raised"}
        /\ rpc = "raised" => r_err = [kind |-> "failed_after_attempts", n |-> max_retries]
        /\ rpc = "try" => (~ ENABLED RunnerAttempt /\ who = "impl")
        /\ iteration <= 1
        /\ counts.impl <= 1
        /\ counts.gate_phases = 0
        /\ counts.verify = 0
        /\ pc \in {"entry", "loop", "phase1", "finally", "returned", "raised"}
        /\ Recorded = << >>
        /\ ~ converged
        /\ (pc \in {"finally", "returned", "raised"} /\ counts.impl = 1) =>
              /\ exc = [kind |-> "failed_after_attempts", n |-> max_retries]
              /\ pc # "returned"
              /\ iter_metrics.iteration = 1
              /\ ~ iter_metrics.phase1_done

\* a run with max_retries = 0 has ended by the exception of its first
\* implementation call
C40_Witness ==
    /\ max_retries = 0
    /\ max_iterations = MaxIterations
    /\ pc = "raised"
    /\ counts.impl = 1
    /\ exc.kind = "failed_after_attempts"
    /\ Recorded = << >>
    /\ counts.saves = 1

====
